---- MODULE Spec2Model ----
(***************************************************************************)
(* homebridge-denon-accfactory: the local override cache, the input        *)
(* services and the intents of the receiver accessory (receiver.js), the   *)
(* telnet telegram decoder, the volume scale, the sockets, the discovery   *)
(* and the fallback HTTP call of the platform (denon.js).                  *)
(*                                                                         *)
(* Strings are TLA+ strings; TLC treats them as sequences of characters,   *)
(* so Len, SubSeq and \o work on them.                                     *)
(***************************************************************************)
EXTENDS Integers, Sequences, FiniteSets, TLC

VARIABLES
    \* ---- receiver accessory (AVReceiver) ----
    deviceData,     \* this.deviceData: the canonical state the accessory holds
    cachedOptions,  \* this.cachedOptions: key -> locally set value
    exposed,        \* what the accessory hands to the presentation layer
    commands,       \* commands passed to this.set() by the last handler
    ov,             \* history of the override: last operation and last pass
    services,       \* the input services and the speaker services of the accessory
    \* ---- platform (DenonAccfactory), one receiver ----
    rawData,        \* this.#rawData[macAddress].value
    trackedDevices, \* this.#trackedDevices holds the receiver; its keys where two receivers are read
    stream,         \* characters written by the receiver and not read yet
    tel,            \* history of the channel: telegrams sent and the last read
    canonical,      \* the processed device of the last UPDATE message emitted
    conn,           \* the persistent socket of the receiver and the traffic of #set
    fw,             \* one call of fetchWrapper
    discovery       \* this.#rawData as discoverDevices fills it, and its handlers in flight

ovVars == <<deviceData, cachedOptions, exposed, commands, ov, services>>

telVars == <<rawData, trackedDevices, stream, tel, canonical>>

netVars == <<conn, fw, discovery>>

vars == <<deviceData, cachedOptions, exposed, commands, ov, services, rawData, trackedDevices,
          stream, tel, canonical, conn, fw, discovery>>

(***************************************************************************)
(* Bounds                                                                  *)
(***************************************************************************)
\* the count of consecutive stale updates saturates here
MaxStale == 2

\* at most this many handlers of discoverDevices await the descriptor of one
\* address at a time
MaxInFlight == 2

\* the receiver sends at most this many telegrams
MaxSent == 2

\* volume codes have at most this many digits
MaxCodeLen == 3

(***************************************************************************)
(* JavaScript string helpers                                               *)
(***************************************************************************)
Min(a, b) == IF a < b THEN a ELSE b

Max(a, b) == IF a > b THEN a ELSE b

CharAt(s, i) == SubSeq(s, i, i)

\* String.prototype.startsWith
StartsWith(s, p) == Len(p) <= Len(s) /\ SubSeq(s, 1, Len(p)) = p

\* String.prototype.substring(from, to), 0-based, to exclusive and clamped
Substring(s, from, to) == SubSeq(s, Min(from, Len(s)) + 1, Min(to, Len(s)))

\* String.prototype.substring(from)
SubstringFrom(s, from) == Substring(s, from, Len(s))

\* index of the first occurrence of the character c in s, 0 when absent
IndexOf(s, c) ==
    IF \E i \in 1..Len(s) : CharAt(s, i) = c
      THEN CHOOSE i \in 1..Len(s) : CharAt(s, i) = c /\ \A j \in 1..(i - 1) : CharAt(s, j) # c
      ELSE 0

\* String.prototype.split on a one-character separator
RECURSIVE Split(_, _)
Split(s, sep) ==
    LET i == IndexOf(s, sep)
    IN  IF i = 0 THEN <<s>>
        ELSE <<SubSeq(s, 1, i - 1)>> \o Split(SubSeq(s, i + 1, Len(s)), sep)

Digits == "0123456789"

UpperCase == "ABCDEFGHIJKLMNOPQRSTUVWXYZ"

LowerCase == "abcdefghijklmnopqrstuvwxyz"

\* the UTF-8 byte of an ASCII character (Buffer.from); the characters of the
\* input keys are letters, digits, space, '-', '.' and '/'
Ord(c) ==
    IF IndexOf(Digits, c) # 0 THEN 47 + IndexOf(Digits, c)
    ELSE IF IndexOf(UpperCase, c) # 0 THEN 64 + IndexOf(UpperCase, c)
    ELSE IF IndexOf(LowerCase, c) # 0 THEN 96 + IndexOf(LowerCase, c)
    ELSE IF c = " " THEN 32
    ELSE IF c = "-" THEN 45
    ELSE IF c = "." THEN 46
    ELSE 47

(***************************************************************************)
(* receiver.js: #crc32                                                     *)
(***************************************************************************)
\* TLC integers are 32-bit signed, so an unsigned 32-bit word is kept as its
\* two 16-bit halves: the word is hi * 65536 + lo
Word(hi, lo) == [hi |-> hi, lo |-> lo]

\* the word of a signed 32-bit integer (the table holds signed literals)
ToUint32(x) == Word(((x - (x % 65536)) \div 65536) % 65536, x % 65536)

RECURSIVE BitXor(_, _, _)
BitXor(a, b, n) ==
    IF n = 0 THEN 0
    ELSE (((a % 2) + (b % 2)) % 2) + 2 * BitXor(a \div 2, b \div 2, n - 1)

\* a ^ b on 32-bit words
Xor32(a, b) == Word(BitXor(a.hi, b.hi, 16), BitXor(a.lo, b.lo, 16))

\* a >>> 8
ShiftRight8(a) == Word(a.hi \div 256, (a.hi % 256) * 256 + (a.lo \div 256))

AllOnes == Word(65535, 65535)

crc32HashTable == <<
    0, 1996959894, -301047508, -1727442502, 124634137, 1886057615, -379345611, -1637575261,
    249268274, 2044508324, -522852066, -1747789432, 162941995, 2125561021, -407360249, -1866523247,
    498536548, 1789927666, -205950648, -2067906082, 450548861, 1843258603, -187386543, -2083289657,
    325883990, 1684777152, -43845254, -1973040660, 335633487, 1661365465, -99664541, -1928851979,
    997073096, 1281953886, -715111964, -1570279054, 1006888145, 1258607687, -770865667, -1526024853,
    901097722, 1119000684, -608450090, -1396901568, 853044451, 1172266101, -589951537, -1412350631,
    651767980, 1373503546, -925412992, -1076862698, 565507253, 1454621731, -809855591, -1195530993,
    671266974, 1594198024, -972236366, -1324619484, 795835527, 1483230225, -1050600021, -1234817731,
    1994146192, 31158534, -1731059524, -271249366, 1907459465, 112637215, -1614814043, -390540237,
    2013776290, 251722036, -1777751922, -519137256, 2137656763, 141376813, -1855689577, -429695999,
    1802195444, 476864866, -2056965928, -228458418, 1812370925, 453092731, -2113342271, -183516073,
    1706088902, 314042704, -1950435094, -54949764, 1658658271, 366619977, -1932296973, -69972891,
    1303535960, 984961486, -1547960204, -725929758, 1256170817, 1037604311, -1529756563, -740887301,
    1131014506, 879679996, -1385723834, -631195440, 1141124467, 855842277, -1442165665, -586318647,
    1342533948, 654459306, -1106571248, -921952122, 1466479909, 544179635, -1184443383, -832445281,
    1591671054, 702138776, -1328506846, -942167884, 1504918807, 783551873, -1212326853, -1061524307,
    -306674912, -1698712650, 62317068, 1957810842, -355121351, -1647151185, 81470997, 1943803523,
    -480048366, -1805370492, 225274430, 2053790376, -468791541, -1828061283, 167816743, 2097651377,
    -267414716, -2029476910, 503444072, 1762050814, -144550051, -2140837941, 426522225, 1852507879,
    -19653770, -1982649376, 282753626, 1742555852, -105259153, -1900089351, 397917763, 1622183637,
    -690576408, -1580100738, 953729732, 1340076626, -776247311, -1497606297, 1068828381, 1219638859,
    -670225446, -1358292148, 906185462, 1090812512, -547295293, -1469587627, 829329135, 1181335161,
    -882789492, -1134132454, 628085408, 1382605366, -871598187, -1156888829, 570562233, 1426400815,
    -977650754, -1296233688, 733239954, 1555261956, -1026031705, -1244606671, 752459403, 1541320221,
    -1687895376, -328994266, 1969922972, 40735498, -1677130071, -351390145, 1913087877, 83908371,
    -1782625662, -491226604, 2075208622, 213261112, -1831694693, -438977011, 2094854071, 198958881,
    -2032938284, -237706686, 1759359992, 534414190, -2118248755, -155638181, 1873836001, 414664567,
    -2012718362, -15766928, 1711684554, 285281116, -1889165569, -127750551, 1634467795, 376229701,
    -1609899400, -686959890, 1308918612, 956543938, -1486412191, -799009033, 1231636301, 1047427035,
    -1362007478, -640263460, 1088359270, 936918000, -1447252397, -558129467, 1202900863, 817233897,
    -1111625188, -893730166, 1404277552, 615818150, -1160759803, -841546093, 1423857449, 601450431,
    -1285129682, -1000256840, 1567103746, 711928724, -1274298825, -1022587231, 1510334235, 755167117
>>

RECURSIVE crc32Loop(_, _, _)
crc32Loop(crc, valueToHash, index) ==
    IF index > Len(valueToHash) THEN crc
    ELSE CHOOSE r \in {crc32Loop(next, valueToHash, index + 1) :
                          next \in {Xor32(ToUint32(crc32HashTable[BitXor(crc.lo % 256,
                                                                         Ord(CharAt(valueToHash, index)), 8) + 1]),
                                          ShiftRight8(crc))}} : TRUE

\* the register as the loop leaves it
crc32NoFinalXor(valueToHash) == crc32Loop(AllOnes, valueToHash, 1)

crc32(valueToHash) == Xor32(crc32Loop(AllOnes, valueToHash, 1), AllOnes)

(***************************************************************************)
(* receiver.js: the accessory's view of one receiver                       *)
(***************************************************************************)
\* deviceInfo.DeviceZones of the modelled receiver: a main zone and zone 2
DeviceZones == 2

Zones == 1..DeviceZones

\* deviceData.inputs of the modelled receiver (uri and title of each input)
DeviceInputs == <<
    [uri |-> "CD", title |-> "CD"],
    [uri |-> "DVD", title |-> "DVD"],
    [uri |-> "TUNERFM", title |-> "Tuner"],
    [uri |-> "PRESET01", title |-> "FM 105.00"] >>

\* the identifiers HomeKit hands to setZoneInput: one per input, one unknown
\* this.#crc32(uri) of every input key, computed once
InputIdentifier == [uri \in {DeviceInputs[i].uri : i \in 1..Len(DeviceInputs)} |-> crc32(uri)]

InputIdentifiers == {InputIdentifier[u] : u \in DOMAIN InputIdentifier} \cup {Word(0, 0)}

\* input, secondary source and label of a zone as the normalizer reports them
ZoneSources == {
    [input |-> "CD", source |-> "", label |-> ""],
    [input |-> "DVD", source |-> "", label |-> ""],
    [input |-> "TUNERFM", source |-> "PRESET01", label |-> "BBC"] }

\* the attributes of a zone the accessory sets locally (power and input, with
\* the secondary source and label that setZoneInput clears)
InitialZone == [power |-> FALSE, input |-> "CD", source |-> "", label |-> ""]

\* a canonical update follows one telegram: it reports the zones as they were
\* reported before, or with one attribute of one zone changed
CanonicalUpdates(zones) ==
    {zones}
    \cup {[zones EXCEPT ![z].power = ~zones[z].power] : z \in Zones}
    \cup {[zones EXCEPT ![z].input = s.input, ![z].source = s.source, ![z].label = s.label] :
             z \in Zones, s \in ZoneSources}

\* kind of the last pass: "none" (nothing cached), "stale" (the update reports
\* the value held before), "confirm" (it reports the cached value), "other"
\* fkind compares the attribute set last only: "stale" (it still reports the
\* pre-set value), "confirm" (it reports the set value), "third"
NoPass == [reported |-> <<>>, pending |-> FALSE, kind |-> "none", fkind |-> "none"]

\* the attribute of the zones a set() was about
FieldOf(zones, set) ==
    IF set.field = "power" THEN zones[set.zone].power ELSE zones[set.zone].input

NoSet == [field |-> "", zone |-> 0, preSet |-> <<>>, value |-> <<>>, stale |-> 0]

\* no input service has been built and no speaker service is active
NoServices == [AMPInputs |-> << >>, speakerActive |-> [z \in Zones |-> FALSE]]

InitReceiver ==
    /\ deviceData = [zones |-> [z \in Zones |-> InitialZone]]
    /\ cachedOptions = << >>
    /\ exposed = [zones |-> [z \in Zones |-> InitialZone]]
    /\ commands = << >>
    /\ ov = [op |-> "init", set |-> NoSet, pass |-> NoPass]
    /\ services = NoServices

HasOverride(cache, key) == key \in DOMAIN cache

\* this.cachedOptions[key] = value
PutOverride(cache, key, value) ==
    [k \in DOMAIN cache \cup {key} |-> IF k = key THEN value ELSE cache[k]]

ZoneCommandPrefix(zone, main) == IF zone = 1 THEN main ELSE "Z" \o ToString(zone)

(***************************************************************************)
(* receiver.js: setZonePower                                               *)
(***************************************************************************)
setZonePower(zone, value) ==
    LET power == (value = "ACTIVE")
        cached == [deviceData.zones EXCEPT ![zone].power = power]
    IN  /\ exposed' = [exposed EXCEPT !.zones[zone].power = power]
        /\ commands' = <<ZoneCommandPrefix(zone, "ZM") \o (IF power THEN "ON" ELSE "OFF")>>
        /\ cachedOptions' = PutOverride(cachedOptions, "zones", cached)
        /\ deviceData' = deviceData
        /\ services' = services
        /\ ov' = [op |-> "set",
                  set |-> [field |-> "power", zone |-> zone, preSet |-> deviceData.zones,
                           value |-> cached, stale |-> 0],
                  pass |-> NoPass]

(***************************************************************************)
(* receiver.js: setZoneInput                                               *)
(***************************************************************************)
FindInput(inputs, value) == {i \in 1..Len(inputs) : InputIdentifier[inputs[i].uri] = value}

\* the band tuned before the receiver is switched to the tuner
InputCommandsBandFirst(zone, input) ==
    (IF StartsWith(input.uri, "TUNER")
       THEN <<"TMAN" \o SubstringFrom(input.uri, 5),
              (IF zone = 1 THEN "SITUNER" ELSE "Z" \o ToString(zone) \o "TUNER")>>
       ELSE << >>)
    \o
    (IF StartsWith(input.uri, "PRESET")
       THEN <<"TMAN" \o Split(input.title, " ")[1],
              (IF zone = 1 THEN "SITUNER" ELSE "Z" \o ToString(zone) \o "TUNER"),
              "TPAN" \o Substring(input.uri, 6, 8)>>
       ELSE << >>)
    \o
    (IF ~StartsWith(input.uri, "TUNER") /\ ~StartsWith(input.uri, "PRESET")
       THEN <<ZoneCommandPrefix(zone, "SI") \o input.uri>>
       ELSE << >>)

InputCommands(zone, input) ==
    (IF StartsWith(input.uri, "TUNER")
       THEN <<(IF zone = 1 THEN "SITUNER" ELSE "Z" \o ToString(zone) \o "TUNER"),
              "TMAN" \o SubstringFrom(input.uri, 5)>>
       ELSE << >>)
    \o
    (IF StartsWith(input.uri, "PRESET")
       THEN <<(IF zone = 1 THEN "SITUNER" ELSE "Z" \o ToString(zone) \o "TUNER"),
              "TMAN" \o Split(input.title, " ")[1],
              "TPAN" \o Substring(input.uri, 6, 8)>>
       ELSE << >>)
    \o
    (IF ~StartsWith(input.uri, "TUNER") /\ ~StartsWith(input.uri, "PRESET")
       THEN <<ZoneCommandPrefix(zone, "SI") \o input.uri>>
       ELSE << >>)

setZoneInput(zone, value) ==
    LET found == FindInput(DeviceInputs, value)
    IN  IF found = {}
          THEN /\ UNCHANGED <<deviceData, cachedOptions, exposed, services>>
               /\ commands' = << >>
               /\ ov' = [ov EXCEPT !.op = "noinput"]
          ELSE LET input == DeviceInputs[CHOOSE i \in found : \A j \in found : i <= j]
                   cached == [deviceData.zones EXCEPT ![zone].input = input.uri,
                                                      ![zone].source = "",
                                                      ![zone].label = ""]
               IN  /\ exposed' = [exposed EXCEPT !.zones[zone].input = input.uri]
                   /\ commands' = InputCommands(zone, input)
                   /\ cachedOptions' = PutOverride(cachedOptions, "zones", cached)
                   /\ deviceData' = deviceData
                   /\ services' = services
                   /\ ov' = [op |-> "set",
                             set |-> [field |-> "input", zone |-> zone,
                                      preSet |-> deviceData.zones,
                                      value |-> cached, stale |-> 0],
                             pass |-> NoPass]

(***************************************************************************)
(* receiver.js: updateHomeKitServices, the reconciliation of one key       *)
(***************************************************************************)
\* the test with the cached value not written into the update
ReconcileKeyForgetsValue(updated, existing, value) ==
    IF updated = existing /\ updated # value
      THEN [value |-> updated, keep |-> TRUE]
    ELSE IF updated # existing
      THEN [value |-> updated, keep |-> FALSE]
    ELSE IF value = updated /\ value = existing
      THEN [value |-> updated, keep |-> FALSE]
    ELSE [value |-> updated, keep |-> TRUE]

\* the test with a confirmed entry left in the cache
ReconcileKeyKeepsConfirmed(updated, existing, value) ==
    IF updated = existing /\ updated # value
      THEN [value |-> value, keep |-> TRUE]
    ELSE IF updated # existing /\ updated # value
      THEN [value |-> updated, keep |-> FALSE]
    ELSE IF value = updated /\ value = existing
      THEN [value |-> updated, keep |-> FALSE]
    ELSE [value |-> updated, keep |-> TRUE]

\* the test with the cached value preferred over an external change
ReconcileKeyKeepsExternal(updated, existing, value) ==
    IF updated # value /\ (updated = existing \/ existing # value)
      THEN [value |-> value, keep |-> TRUE]
    ELSE IF updated # existing
      THEN [value |-> updated, keep |-> FALSE]
    ELSE IF value = updated /\ value = existing
      THEN [value |-> updated, keep |-> FALSE]
    ELSE [value |-> updated, keep |-> TRUE]

\* the test with the entry deleted only once all three values agree
ReconcileKeyNeverSuperseded(updated, existing, value) ==
    IF updated # value
      THEN [value |-> value, keep |-> TRUE]
    ELSE IF value = updated /\ value = existing
      THEN [value |-> updated, keep |-> FALSE]
    ELSE [value |-> updated, keep |-> TRUE]

\* the three-way test of one cached key: updated is the incoming value,
\* existing is this.deviceData[key], value is the cached value
ReconcileKey(updated, existing, value) ==
    IF updated = existing /\ updated # value
      THEN [value |-> value, keep |-> TRUE]
    ELSE IF updated # existing
      THEN [value |-> updated, keep |-> FALSE]
    ELSE IF value = updated /\ value = existing
      THEN [value |-> updated, keep |-> FALSE]
    ELSE [value |-> updated, keep |-> TRUE]

\* Object.entries(this.cachedOptions).forEach(...): every cached key is
\* reconciled on its own; the result is the data handed on and the cache left
updateHomeKitServices(updatedDeviceData, existing, cache) ==
    LET r(key) == ReconcileKey(updatedDeviceData[key], existing[key], cache[key])
    IN  [updated |-> [key \in DOMAIN updatedDeviceData |->
                        IF key \in DOMAIN cache THEN r(key).value ELSE updatedDeviceData[key]],
         cache |-> [key \in {k \in DOMAIN cache : r(k).keep} |-> cache[key]]]

\* HomeKitDevice.update: what the accessory keeps as this.deviceData after it
\* has processed a canonical update (the canonical state as reported)
StoreDeviceData(reported, reconciled) == reported

\* a canonical update for the accessory: the 'device updated' notification
update(zones) ==
    LET reported == [zones |-> zones]
        r == updateHomeKitServices(reported, deviceData, cachedOptions)
        pending == HasOverride(cachedOptions, "zones")
        staleRun == pending /\ ov.set.field # "" /\ zones = ov.set.preSet
    IN  /\ exposed' = r.updated
        /\ cachedOptions' = r.cache
        /\ deviceData' = StoreDeviceData(reported, r.updated)
        /\ services' = [services EXCEPT
                          !.speakerActive = [z \in DOMAIN @ |-> r.updated.zones[z].power]]
        /\ commands' = << >>
        /\ ov' = [op |-> "update",
                  set |-> IF staleRun
                            THEN [ov.set EXCEPT !.stale = Min(ov.set.stale + 1, MaxStale)]
                            ELSE NoSet,
                  pass |-> [reported |-> zones, pending |-> pending,
                            kind |-> IF ~pending THEN "none"
                                     ELSE IF zones = deviceData.zones THEN "stale"
                                     ELSE IF zones = cachedOptions["zones"] THEN "confirm"
                                     ELSE "other",
                            fkind |-> IF ~pending \/ ov.set.field = "" THEN "none"
                                      ELSE IF FieldOf(zones, ov.set) = FieldOf(cachedOptions["zones"], ov.set)
                                        THEN "confirm"
                                      ELSE IF FieldOf(zones, ov.set) = FieldOf(deviceData.zones, ov.set)
                                        THEN "stale"
                                      ELSE "third"]]

(***************************************************************************)
(* denon.js: JavaScript conversions used by the telegram decoder           *)
(***************************************************************************)
IsWhiteSpace(c) == c \in {" ", "\r", "\n", "\t"}

RECURSIVE TrimStart(_)
TrimStart(s) ==
    IF Len(s) > 0 /\ IsWhiteSpace(CharAt(s, 1)) THEN TrimStart(SubSeq(s, 2, Len(s))) ELSE s

RECURSIVE TrimEnd(_)
TrimEnd(s) ==
    IF Len(s) > 0 /\ IsWhiteSpace(CharAt(s, Len(s))) THEN TrimEnd(SubSeq(s, 1, Len(s) - 1)) ELSE s

\* String.prototype.trim
Trim(s) == TrimEnd(TrimStart(s))

\* String.prototype.padEnd(n, c)
RECURSIVE PadEnd(_, _, _)
PadEnd(s, n, c) == IF Len(s) >= n THEN s ELSE PadEnd(s \o c, n, c)

IsDigits(s) == \A i \in 1..Len(s) : IndexOf(Digits, CharAt(s, i)) # 0

RECURSIVE DigitsValue(_)
DigitsValue(s) ==
    IF Len(s) = 0 THEN 0
    ELSE 10 * DigitsValue(SubSeq(s, 1, Len(s) - 1)) + (IndexOf(Digits, CharAt(s, Len(s))) - 1)

\* isNaN(Number(s)) for the remainders of the telegram vocabulary: the empty
\* string and strings of decimal digits are numbers (Number('') is 0), any
\* remainder holding a letter or a space inside is NaN
IsNaNNumber(s) == ~IsDigits(s)

\* Number(s) of a string of decimal digits
NumberOf(s) == DigitsValue(s)

\* (x).toFixed(1) of a number given in tenths
ToFixed1(tenths) ==
    LET a == IF tenths < 0 THEN 0 - tenths ELSE tenths
    IN  (IF tenths < 0 THEN "-" ELSE "") \o ToString(a \div 10) \o "." \o ToString(a % 10)

\* (x).toFixed(2) of a number given in hundredths
ToFixed2(hundredths) ==
    ToString(hundredths \div 100) \o "." \o ToString((hundredths % 100) \div 10)
        \o ToString(hundredths % 10)

\* parseFloat of a string written with one decimal, in tenths
ParseFloat(s) ==
    LET neg == StartsWith(s, "-")
        body == IF neg THEN SubSeq(s, 2, Len(s)) ELSE s
        dot == IndexOf(body, ".")
        whole == IF dot = 0 THEN body ELSE SubSeq(body, 1, dot - 1)
        frac == IF dot = 0 THEN "0" ELSE PadEnd(SubSeq(body, dot + 1, dot + 1), 1, "0")
        a == 10 * DigitsValue(whole) + DigitsValue(frac)
    IN  IF neg THEN 0 - a ELSE a

(***************************************************************************)
(* denon.js: scaleValue and the volume scale                               *)
(***************************************************************************)
\* -79.5 and 18 dB in tenths, and the normalized range 0..98
VolumeMin == 0 - 795

VolumeMax == 180

StepMin == 0

StepMax == 98

\* scaleValue(value, sourceRangeMin, sourceRangeMax, targetRangeMin, targetRangeMax)
\* with the source range in tenths; the result is the fraction num / den
scaleValueUnclamped(value, sourceRangeMin, sourceRangeMax, targetRangeMin, targetRangeMax) ==
    [num |-> (value - sourceRangeMin) * (targetRangeMax - targetRangeMin)
               + targetRangeMin * (sourceRangeMax - sourceRangeMin),
     den |-> sourceRangeMax - sourceRangeMin]

scaleValue(value, sourceRangeMin, sourceRangeMax, targetRangeMin, targetRangeMax) ==
    LET v1 == IF value < sourceRangeMin THEN sourceRangeMin ELSE value
        v2 == IF v1 > sourceRangeMax THEN sourceRangeMax ELSE v1
    IN  [num |-> (v2 - sourceRangeMin) * (targetRangeMax - targetRangeMin)
                   + targetRangeMin * (sourceRangeMax - sourceRangeMin),
         den |-> sourceRangeMax - sourceRangeMin]

\* Math.floor(q * 2) in the place of Math.round(q * 2)
RoundDoubledFloor(q) == (2 * q.num) \div q.den

\* Math.round(q * 2) of a non-negative fraction q: the number of half steps
RoundDoubled(q) == (4 * q.num + q.den) \div (2 * q.den)

\* Math.round((volume !== '--' ? scaleValue(parseFloat(volume), -79.5, 18, 0, 98) : 0.0) * 2),
\* the normalized volume counted in half steps (the value is half of it)
VolumeHalfSteps(volume) ==
    IF volume # "--"
      THEN RoundDoubled(scaleValue(ParseFloat(volume), VolumeMin, VolumeMax, StepMin, StepMax))
      ELSE 0

\* (halfSteps * 0.5).toFixed(1)
HalfStepsToFixed1(halfSteps) == ToFixed1(halfSteps * 5)

\* the raw volume of a code without the sentinel of code 0
VolumeOfCodeNoSentinel(code) == ToFixed1(VolumeMin + NumberOf(PadEnd(code, 3, "0")))

\* the raw volume a numeric volume code stores
VolumeOfCode(code) ==
    IF NumberOf(code) # 0
      THEN ToFixed1(VolumeMin + NumberOf(PadEnd(code, 3, "0")))
      ELSE "--"


(***************************************************************************)
(* denon.js: #rawData of one receiver, as the descriptor fetch fills it    *)
(***************************************************************************)
Undefined == "<undefined>"

ZoneKeys(n) == 1..n

\* rawData[macAddress].value of a receiver with n zones
DescriptorValue(n) ==
    [sdp |-> [friendlyName |-> "Denon AVR", serialNumber |-> "SN1", firmwareVersion |-> Undefined],
     deviceInfo |-> [MacAddress |-> "00:05:CD:00:00:01", DeviceZones |-> n, Band |-> <<"FM", "AM">>],
     GetAllZonePowerStatus |-> [z \in ZoneKeys(n) |-> "OFF"],
     GetAllZoneMuteStatus |-> [z \in ZoneKeys(n) |-> "off"],
     GetAllZoneVolume |-> [z \in ZoneKeys(n) |->
                             [volume |-> "-40.0", disptype |-> "ABSOLUTE", dispvalue |-> "39.5"]],
     GetZoneName |-> [z \in ZoneKeys(n) |-> IF z = 1 THEN "MAIN ZONE " ELSE "ZONE" \o ToString(z) \o "     "],
     GetAllZoneSource |-> [z \in ZoneKeys(n) |-> [source |-> IF z = 1 THEN "CD" ELSE "SOURCE"]],
     GetTunerStatus |-> [band |-> "FM", automanual |-> "AUTO", name |-> "BBC", frequency |-> "105.00",
                         presetno |-> "OFF", presetname |-> "          "],
     presets |-> <<[table |-> "01", band |-> "FM", param |-> "BBC R2   010500", skip |-> "OFF"],
                   [table |-> "02", band |-> "FM", param |-> "         009830", skip |-> "OFF"]>>,
     GetRenameSource |-> <<[name |-> "CD", rename |-> "CD"],
                           [name |-> "TV AUDIO", rename |-> "TV"],
                           [name |-> "TUNER", rename |-> "Tuner"]>>,
     GetDeletedSource |-> <<[name |-> "CD", use |-> "1"],
                            [name |-> "TV AUDIO", use |-> "1"],
                            [name |-> "TUNER", use |-> "1"]>>]

(***************************************************************************)
(* denon.js: #processData, the canonical state of one receiver             *)
(***************************************************************************)
\* the upper-case letter of every lower-case letter
UpperTable ==
    [c \in {CharAt(LowerCase, i) : i \in 1..Len(LowerCase)} |-> CharAt(UpperCase, IndexOf(LowerCase, c))]

\* the upper-case letter of a lower-case letter, any other character itself
UpperOf(c) == IF c \in DOMAIN UpperTable THEN UpperTable[c] ELSE c

\* the characters of s from the i-th on, in upper case
RECURSIVE ToUpperCaseFrom(_, _)
ToUpperCaseFrom(s, i) ==
    IF i > Len(s) THEN "" ELSE UpperOf(CharAt(s, i)) \o ToUpperCaseFrom(s, i + 1)

\* String.prototype.toUpperCase
ToUpperCase(s) == ToUpperCaseFrom(s, 1)

\* the vendor names #processData knows, with the key, type and capability
\* flags it assigns to each
KnownSources == <<
    [name |-> "CD",             uri |-> "CD",       type |-> "CD",          canhide |-> TRUE,  canrename |-> TRUE],
    [name |-> "CBL/SAT",        uri |-> "SAT/CBL",  type |-> "SAT/CBL",     canhide |-> TRUE,  canrename |-> TRUE],
    [name |-> "DVD",            uri |-> "DVD",      type |-> "DVD",         canhide |-> TRUE,  canrename |-> TRUE],
    [name |-> "BLU-RAY",        uri |-> "BD",       type |-> "BLURAY",      canhide |-> TRUE,  canrename |-> TRUE],
    [name |-> "GAME",           uri |-> "GAME",     type |-> "BLURAY",      canhide |-> TRUE,  canrename |-> TRUE],
    [name |-> "AUX1",           uri |-> "AUX1",     type |-> "AUX",         canhide |-> TRUE,  canrename |-> TRUE],
    [name |-> "AUX2",           uri |-> "AUX2",     type |-> "AUX",         canhide |-> TRUE,  canrename |-> TRUE],
    [name |-> "MEDIA PLAYER",   uri |-> "MPLAY",    type |-> "MEDIAPLAYER", canhide |-> TRUE,  canrename |-> TRUE],
    [name |-> "IPOD/USB",       uri |-> "USB/IPOD", type |-> "IPOD/USB",    canhide |-> TRUE,  canrename |-> FALSE],
    [name |-> "TV AUDIO",       uri |-> "TV",       type |-> "TV",          canhide |-> TRUE,  canrename |-> TRUE],
    [name |-> "NETWORK",        uri |-> "NET",      type |-> "NET",         canhide |-> TRUE,  canrename |-> FALSE],
    [name |-> "BLUETOOTH",      uri |-> "BT",       type |-> "BLUETOOTH",   canhide |-> TRUE,  canrename |-> FALSE],
    [name |-> "SPOTIFYCONNECT", uri |-> "SPOTIFY",  type |-> "SPOTIFY",     canhide |-> FALSE, canrename |-> FALSE] >>

\* the rows of KnownSources whose name is the trimmed, upper-cased vendor name
KnownSource(name) ==
    UNION {{i \in 1..Len(KnownSources) : KnownSources[i].name = search} :
              search \in {ToUpperCase(Trim(name))}}

\* hidden: the use flag of the row of GetDeletedSource with this very name
IsDeleted(value, name) ==
    LET list == value.GetDeletedSource
        found == {i \in 1..Len(list) : list[i].name = name}
    IN  found # {} /\ list[CHOOSE i \in found : \A j \in found : i <= j].use = "0"

\* the entry pushed for one row of GetRenameSource, none for the tuner and
\* for a vendor name that is not known
RenameInput(value, functionrename) ==
    LET known == KnownSource(functionrename.name)
    IN  IF ToUpperCase(Trim(functionrename.name)) = "TUNER" \/ known = {}
          THEN << >>
          ELSE LET k == KnownSources[CHOOSE i \in known : TRUE]
               IN  <<[uri |-> k.uri,
                      title |-> Trim(functionrename.name),
                      label |-> Trim(functionrename.rename),
                      type |-> k.type,
                      hidden |-> IsDeleted(value, functionrename.name),
                      canhide |-> k.canhide,
                      canrename |-> k.canrename]>>

RECURSIVE RenameInputs(_, _)
RenameInputs(value, index) ==
    IF index > Len(value.GetRenameSource) THEN << >>
    ELSE RenameInput(value, value.GetRenameSource[index]) \o RenameInputs(value, index + 1)

\* the same key for every band of the tuner
BandInputNoBand(band) ==
    [uri |-> "TUNER", title |-> "Tuner", label |-> "Tuner " \o band,
     type |-> "RADIO", hidden |-> FALSE, canhide |-> FALSE, canrename |-> FALSE]

\* one entry per band of the tuner
BandInput(band) ==
    [uri |-> "TUNER" \o ToUpperCase(band), title |-> "Tuner", label |-> "Tuner " \o band,
     type |-> "RADIO", hidden |-> FALSE, canhide |-> FALSE, canrename |-> FALSE]

BandInputs(value) == [i \in 1..Len(value.deviceInfo.Band) |-> BandInput(value.deviceInfo.Band[i])]

\* an entry for every row of the preset table, the unused slots too
PresetInputKeepsOff(preset) ==
    <<[uri |-> "PRESET" \o preset.table,
       title |-> preset.band \o " " \o Trim(Substring(preset.param, 9, 15)),
       label |-> IF Trim(Substring(preset.param, 0, 8)) # ""
                   THEN Trim(Substring(preset.param, 0, 8))
                   ELSE "Preset" \o preset.table,
       type |-> "MEMORY",
       hidden |-> ToUpperCase(preset.skip) = "ON",
       canhide |-> TRUE,
       canrename |-> TRUE]>>

\* one entry per preset whose slot is not OFF
PresetInput(preset) ==
    IF preset.table = "OFF" THEN << >>
    ELSE <<[uri |-> "PRESET" \o preset.table,
            title |-> preset.band \o " " \o Trim(Substring(preset.param, 9, 15)),
            label |-> IF Trim(Substring(preset.param, 0, 8)) # ""
                        THEN Trim(Substring(preset.param, 0, 8))
                        ELSE "Preset" \o preset.table,
            type |-> "MEMORY",
            hidden |-> ToUpperCase(preset.skip) = "ON",
            canhide |-> TRUE,
            canrename |-> TRUE]>>

RECURSIVE PresetInputs(_, _)
PresetInputs(value, index) ==
    IF index > Len(value.presets) THEN << >>
    ELSE PresetInput(value.presets[index]) \o PresetInputs(value, index + 1)

\* tempDevice.inputs
DeviceInputList(value) == RenameInputs(value, 1) \o BandInputs(value) \o PresetInputs(value, 1)

\* source.split(/ (.*)/s)[0]: the text before the first space
BeforeSpace(source) ==
    IF IndexOf(source, " ") = 0 THEN source ELSE SubSeq(source, 1, IndexOf(source, " ") - 1)

\* every zone resolved with its own source
FollowedZoneOwn(value, zoneName, index) == zoneName

\* the zone whose source is looked at from this input on: a zone other than
\* the first with the source SOURCE or '' is replaced by zone 1
FollowedZone(value, zoneName, index) ==
    IF (value.GetAllZoneSource[zoneName].source = "SOURCE" \/ value.GetAllZoneSource[zoneName].source = "")
         /\ index # 0
      THEN 1
      ELSE zoneName

\* a selected preset made the active input itself
ResolveInputPresetKey(value, input, index, acc) ==
    LET zoneName == FollowedZone(value, acc.zoneName, index)
        source == value.GetAllZoneSource[zoneName].source
        tuner == value.GetTunerStatus
        plain == \/ ToUpperCase(BeforeSpace(source)) = ToUpperCase(input.uri)
                 \/ ToUpperCase(BeforeSpace(source)) = "AIRPLAY" /\ ToUpperCase(input.uri) = "NET"
        isTuner == ToUpperCase(source) = "TUNER"
        label == Trim(tuner.name)
        noPreset == isTuner /\ ToUpperCase(tuner.presetno) = "OFF"
                            /\ "TUNER" \o ToUpperCase(tuner.band) = ToUpperCase(input.uri)
        preset == isTuner /\ ToUpperCase(tuner.presetno) # "OFF"
                          /\ "PRESET" \o tuner.presetno = ToUpperCase(input.uri)
    IN  [zoneName |-> zoneName,
         input |-> IF preset THEN input.uri
                   ELSE IF noPreset \/ plain THEN input.uri
                   ELSE acc.input,
         source |-> IF preset THEN ToUpperCase(input.uri) ELSE acc.source,
         label |-> IF preset \/ noPreset THEN label ELSE acc.label]

\* the body of tempDevice.inputs.forEach for one input, on the zone being
\* built
ResolveInput(value, input, index, acc) ==
    LET zoneName == FollowedZone(value, acc.zoneName, index)
        source == value.GetAllZoneSource[zoneName].source
        tuner == value.GetTunerStatus
        plain == \/ ToUpperCase(BeforeSpace(source)) = ToUpperCase(input.uri)
                 \/ ToUpperCase(BeforeSpace(source)) = "AIRPLAY" /\ ToUpperCase(input.uri) = "NET"
        isTuner == ToUpperCase(source) = "TUNER"
        label == Trim(tuner.name)
        noPreset == isTuner /\ ToUpperCase(tuner.presetno) = "OFF"
                            /\ "TUNER" \o ToUpperCase(tuner.band) = ToUpperCase(input.uri)
        preset == isTuner /\ ToUpperCase(tuner.presetno) # "OFF"
                          /\ "PRESET" \o tuner.presetno = ToUpperCase(input.uri)
    IN  [zoneName |-> zoneName,
         input |-> IF preset THEN "TUNER" \o ToUpperCase(tuner.band)
                   ELSE IF noPreset \/ plain THEN input.uri
                   ELSE acc.input,
         source |-> IF preset THEN ToUpperCase(input.uri) ELSE acc.source,
         label |-> IF preset \/ noPreset THEN label ELSE acc.label]

\* tempDevice.inputs.forEach from the i-th input on, acc being the zone as the
\* inputs before it left it
RECURSIVE ResolveInputs(_, _, _, _, _)
ResolveInputs(value, inputs, i, index, acc) ==
    IF i > Len(inputs) THEN acc
    ELSE CHOOSE zone \in {ResolveInputs(value, inputs, i + 1, index, next) :
                              next \in {ResolveInput(value, inputs[i], index, acc)}} : TRUE

\* tempZone for the zone with this index (0 for the main zone); volume is
\* counted in half steps
ZoneOfIndex(value, inputs, index) ==
    LET zoneName == index + 1
        r == ResolveInputs(value, inputs, 1, index,
                           [zoneName |-> zoneName, input |-> "", source |-> "", label |-> ""])
    IN  [name |-> Trim(value.GetZoneName[zoneName]),
         power |-> ToUpperCase(value.GetAllZonePowerStatus[zoneName]) = "ON",
         volume |-> VolumeHalfSteps(value.GetAllZoneVolume[zoneName].volume),
         mute |-> ToUpperCase(value.GetAllZoneMuteStatus[zoneName]) = "ON",
         input |-> r.input,
         source |-> r.source,
         label |-> r.label]

\* tempDevice once its inputs are built
DeviceOf(value, inputs) ==
    [serialNumber |-> value.sdp.serialNumber,
     hkUsername |-> value.deviceInfo.MacAddress,
     online |-> TRUE,
     inputs |-> inputs,
     zones |-> [z \in 1..value.deviceInfo.DeviceZones |-> ZoneOfIndex(value, inputs, z - 1)]]

\* the processed device of #processData
processData(value) ==
    CHOOSE tempDevice \in {DeviceOf(value, inputs) : inputs \in {DeviceInputList(value)}} : TRUE

\* no canonical state has been emitted
NoDevice == [serialNumber |-> "", hkUsername |-> "", online |-> FALSE, inputs |-> << >>, zones |-> << >>]

(***************************************************************************)
(* denon.js: #subscribeTelnet, the 'data' handler                          *)
(***************************************************************************)
DENON_COMMANDSShortFirst == <<
    "MU", "MV", "ZM", "Z2", "Z3", "SI", "TMAN", "TPMAN", "TPAN", "TFAN", "TFANNAME",
    "OPTPN", "OPTPSTUNER", "SSSOD", "SSFUN", "SSINFFRMAVR", "VIALLS/N.", "NSFRN",
    "R1", "R2", "R3", "SSVCTZMADIS" >>

DENON_COMMANDS == <<
    "MU", "MV", "ZM", "Z2", "Z3", "SI", "TMAN", "TPMAN", "TPAN", "TFANNAME", "TFAN",
    "OPTPN", "OPTPSTUNER", "SSSOD", "SSFUN", "SSINFFRMAVR", "VIALLS/N.", "NSFRN",
    "R1", "R2", "R3", "SSVCTZMADIS" >>

MatchingCommandsSwapped(dataline) ==
    LET starts(commandPrefix) == StartsWith(commandPrefix, dataline)
    IN  SelectSeq(DENON_COMMANDS, starts)

\* DENON_COMMANDS.filter((commandPrefix) => dataline.startsWith(commandPrefix))
MatchingCommands(dataline) ==
    LET starts(commandPrefix) == StartsWith(dataline, commandPrefix)
    IN  SelectSeq(DENON_COMMANDS, starts)

\* command[0]
CommandOf(dataline) == MatchingCommands(dataline)[1]

\* command[1] = dataline.substring(command[0].length).trim()
RemainderOf(dataline) == Trim(SubstringFrom(dataline, Len(CommandOf(dataline))))

\* the outcome of a run of statements of the handler: the raw state they
\* leave and whether one of them raised a TypeError (the statements after it
\* are not executed, the assignments before it stay)
Ok(value) == [value |-> value, threw |-> FALSE]

Throw(value) == [value |-> value, threw |-> TRUE]


\* zone number of a zone prefix: ZM, MV, MU, SI and R1 address zone 1
ZoneOfPrefix(prefix) == IF prefix \in {"Z2", "R2"} THEN 2 ELSE IF prefix \in {"Z3", "R3"} THEN 3 ELSE 1

\* device info: SSINFFRMAVR, VIALLS/N., NSFRN
DeviceInfoChange(value, c0, c1) ==
    IF c0 = "SSINFFRMAVR" THEN [value EXCEPT !.sdp.firmwareVersion = c1]
    ELSE IF c0 = "VIALLS/N." THEN [value EXCEPT !.sdp.serialNumber = c1]
    ELSE IF c0 = "NSFRN" THEN [value EXCEPT !.sdp.friendlyName = c1]
    ELSE value

\* object.zoneN = x: the property is created when it is missing
SetKey(f, key, x) == [k \in DOMAIN f \cup {key} |-> IF k = key THEN x ELSE f[k]]

\* zone power on/off: ZM, Z2, Z3 with ON or OFF
ZonePowerChange(value, c0, c1) ==
    IF c0 \in {"ZM", "Z2", "Z3"} /\ (c1 = "ON" \/ c1 = "OFF")
      THEN [value EXCEPT !.GetAllZonePowerStatus =
              SetKey(@, ZoneOfPrefix(c0), IF c1 = "ON" THEN "ON" ELSE "OFF")]
      ELSE value

\* zone mute on/off: MU with ON or OFF, Z2 and Z3 with MUON or MUOFF
ZoneMuteChange(value, c0, c1) ==
    IF c0 = "MU" /\ (c1 = "ON" \/ c1 = "OFF")
      THEN [value EXCEPT !.GetAllZoneMuteStatus = SetKey(@, 1, IF c1 = "ON" THEN "on" ELSE "off")]
    ELSE IF c0 \in {"Z2", "Z3"} /\ (c1 = "MUON" \/ c1 = "MUOFF")
      THEN [value EXCEPT !.GetAllZoneMuteStatus =
              SetKey(@, ZoneOfPrefix(c0), IF c1 = "MUON" THEN "on" ELSE "off")]
    ELSE value

\* the code's test that a zone exists before its display mode is set: none
\* for zone 1, zone !== undefined for zone 2 and for zone 3 under REL, and
\* typeof zone3 !== undefined, which always holds, for zone 3 under ABS
ZoneTestPasses(value, zone, c1) ==
    \/ zone = 1
    \/ zone = 3 /\ c1 = "ABS"
    \/ zone \in DOMAIN value.GetAllZoneVolume

\* disptype and dispvalue of one zone for SSVCTZMADIS
DisplayTypeOfZone(value, zone, c1) ==
    IF ~ZoneTestPasses(value, zone, c1)
      THEN Ok(value)
    ELSE IF zone \notin DOMAIN value.GetAllZoneVolume
      THEN Throw(value)
    ELSE IF c1 = "REL"
      THEN Ok([value EXCEPT !.GetAllZoneVolume[zone].disptype = "RELATIVE",
                            !.GetAllZoneVolume[zone].dispvalue = value.GetAllZoneVolume[zone].volume \o "dB"])
    ELSE Ok([value EXCEPT !.GetAllZoneVolume[zone].disptype = "ABSOLUTE",
                          !.GetAllZoneVolume[zone].dispvalue =
                              HalfStepsToFixed1(VolumeHalfSteps(value.GetAllZoneVolume[zone].volume))])

\* the statements for zone, zone + 1, .. 3 on the outcome r of the zones
\* before; they run unless those of an earlier zone have thrown
RECURSIVE DisplayTypeOfZones(_, _, _)
DisplayTypeOfZones(r, zone, c1) ==
    IF zone > 3 \/ r.threw THEN r
    ELSE DisplayTypeOfZones(DisplayTypeOfZone(r.value, zone, c1), zone + 1, c1)

\* volume type change: SSVCTZMADIS with ABS or REL, for zone 1, 2 and 3
DisplayTypeChange(value, c0, c1) ==
    IF c0 = "SSVCTZMADIS" /\ (c1 = "ABS" \/ c1 = "REL")
      THEN DisplayTypeOfZones(Ok(value), 1, c1)
      ELSE Ok(value)

\* zone volume change: MV, Z2, Z3 with a numeric code
ZoneVolumeChange(value, c0, c1) ==
    IF c0 \in {"MV", "Z2", "Z3"} /\ ~IsNaNNumber(c1)
      THEN LET zone == ZoneOfPrefix(c0)
           IN  IF zone \notin DOMAIN value.GetAllZoneVolume
                 THEN Throw(value)
               ELSE LET volume == VolumeOfCode(c1)
                        disptype == value.GetAllZoneVolume[zone].disptype
                    IN  Ok([value EXCEPT
                              !.GetAllZoneVolume[zone].volume = volume,
                              !.GetAllZoneVolume[zone].dispvalue =
                                  IF disptype = "ABSOLUTE" THEN HalfStepsToFixed1(VolumeHalfSteps(volume))
                                  ELSE IF disptype = "RELATIVE" THEN volume \o "dB"
                                  ELSE @])
      ELSE Ok(value)

\* zone name change: R1, R2, R3
ZoneNameChange(value, c0, c1) ==
    IF c0 \in {"R1", "R2", "R3"}
      THEN [value EXCEPT !.GetZoneName =
              SetKey(@, ZoneOfPrefix(c0), PadEnd(Substring(c1, 0, 10), 10, " ") \o "\r")]
      ELSE value

\* input change: SI sets the source of zone 1; the Z2 and Z3 tests compare the
\* command array with a string and never hold
InputChange(value, c0, c1) ==
    IF c0 = "SI"
      THEN IF 1 \in DOMAIN value.GetAllZoneSource
             THEN Ok([value EXCEPT !.GetAllZoneSource[1].source = c1])
             ELSE Throw(value)
      ELSE Ok(value)

\* tuner changes: TMAN, TFANNAME, TFAN, TPAN
TunerChange(value, c0, c1) ==
    IF c0 = "TMAN" /\ (c1 = "FM" \/ c1 = "AM")
      THEN [value EXCEPT !.GetTunerStatus.band = c1]
    ELSE IF c0 = "TMAN" /\ (c1 = "AUTO" \/ c1 = "MANUAL")
      THEN [value EXCEPT !.GetTunerStatus.automanual = c1]
    ELSE IF c0 = "TFANNAME"
      THEN [value EXCEPT !.GetTunerStatus.name = c1 \o "\r"]
    ELSE IF c0 = "TFAN" /\ ~IsNaNNumber(c1)
      THEN [value EXCEPT !.GetTunerStatus.frequency = ToFixed2(NumberOf(c1))]
    ELSE IF c0 = "TPAN"
      THEN [value EXCEPT !.GetTunerStatus.presetno = c1,
                         !.GetTunerStatus.presetname = PadEnd("", 10, " ")]
    ELSE value

\* presets.findIndex((preset) => preset.$.table === table), 0 when absent
PresetIndex(presets, table) ==
    IF \E i \in 1..Len(presets) : presets[i].table = table
      THEN CHOOSE i \in 1..Len(presets) :
             presets[i].table = table /\ \A j \in 1..(i - 1) : presets[j].table # table
      ELSE 0

\* preset changes that rewrite the tuner status for any slot
PresetChangeAnySlot(value, c0, c1) ==
    IF c0 = "OPTPN"
      THEN LET v1 == IF TRUE
                       THEN [value EXCEPT
                               !.GetTunerStatus.presetno = Substring(c1, 0, 2),
                               !.GetTunerStatus.presetname = PadEnd(Substring(c1, 2, 11), 10, " "),
                               !.GetTunerStatus.frequency =
                                   IF IsNaNNumber(Trim(Substring(c1, 11, 17)))
                                     THEN "NaN"
                                     ELSE ToFixed2(NumberOf(Trim(Substring(c1, 11, 17))))]
                       ELSE value
               index == PresetIndex(v1.presets, Substring(c1, 0, 2))
           IN  IF index # 0
                 THEN [v1 EXCEPT !.presets[index].param = SubstringFrom(c1, 2)]
                 ELSE v1
    ELSE IF c0 = "OPTPSTUNER" /\ Len(Split(c1, " ")) >= 2
                              /\ (Split(c1, " ")[2] = "ON" \/ Split(c1, " ")[2] = "OFF")
      THEN LET index == PresetIndex(value.presets, Split(c1, " ")[1])
           IN  IF index # 0
                 THEN [value EXCEPT !.presets[index].skip = Split(c1, " ")[2]]
                 ELSE value
    ELSE value

\* preset changes: OPTPN and OPTPSTUNER
PresetChange(value, c0, c1) ==
    IF c0 = "OPTPN"
      THEN LET v1 == IF Substring(c1, 0, 2) = value.GetTunerStatus.presetno
                       THEN [value EXCEPT
                               !.GetTunerStatus.presetno = Substring(c1, 0, 2),
                               !.GetTunerStatus.presetname = PadEnd(Substring(c1, 2, 11), 10, " "),
                               !.GetTunerStatus.frequency =
                                   IF IsNaNNumber(Trim(Substring(c1, 11, 17)))
                                     THEN "NaN"
                                     ELSE ToFixed2(NumberOf(Trim(Substring(c1, 11, 17))))]
                       ELSE value
               index == PresetIndex(v1.presets, Substring(c1, 0, 2))
           IN  IF index # 0
                 THEN [v1 EXCEPT !.presets[index].param = SubstringFrom(c1, 2)]
                 ELSE v1
    ELSE IF c0 = "OPTPSTUNER" /\ Len(Split(c1, " ")) >= 2
                              /\ (Split(c1, " ")[2] = "ON" \/ Split(c1, " ")[2] = "OFF")
      THEN LET index == PresetIndex(value.presets, Split(c1, " ")[1])
           IN  IF index # 0
                 THEN [value EXCEPT !.presets[index].skip = Split(c1, " ")[2]]
                 ELSE value
    ELSE value

\* source name/hidden changes: the test is command[0] === 'SSSOD' ||
\* command === 'SSFUN', which holds for SSSOD only; the first statement calls
\* toUpperCase on the array command[1].split(' ') and raises a TypeError
SourceChange(value, c0, c1) ==
    IF c0 = "SSSOD" THEN Throw(value) ELSE Ok(value)

\* the groups of statements of the handler between the prefix match and
\* #processPostSubscribe, numbered in source order
HandlerBlocks == 10

HandlerBlock(block, value, c0, c1) ==
    CASE block = 1 -> Ok(DeviceInfoChange(value, c0, c1))
      [] block = 2 -> Ok(ZonePowerChange(value, c0, c1))
      [] block = 3 -> Ok(ZoneMuteChange(value, c0, c1))
      [] block = 4 -> DisplayTypeChange(value, c0, c1)
      [] block = 5 -> ZoneVolumeChange(value, c0, c1)
      [] block = 6 -> Ok(ZoneNameChange(value, c0, c1))
      [] block = 7 -> InputChange(value, c0, c1)
      [] block = 8 -> Ok(TunerChange(value, c0, c1))
      [] block = 9 -> Ok(PresetChange(value, c0, c1))
      [] block = 10 -> SourceChange(value, c0, c1)

\* the groups from block on, run in order on the outcome r of the groups
\* before; a group runs unless an earlier one has thrown
RECURSIVE RunHandler(_, _, _, _)
RunHandler(r, block, c0, c1) ==
    IF block > HandlerBlocks \/ r.threw THEN r
    ELSE RunHandler(HandlerBlock(block, r.value, c0, c1), block + 1, c0, c1)

ApplyCommand(value, c0, c1) == RunHandler(Ok(value), 1, c0, c1)

(***************************************************************************)
(* denon.js: the 'data' handler as a whole, one read of the socket         *)
(***************************************************************************)
\* what the handler did with one dataline
Ignored(dataline) ==
    [line |-> dataline, matched |-> FALSE, c0 |-> "", c1 |-> "",
     changed |-> FALSE, threw |-> FALSE, notified |-> FALSE]

\* #processPostSubscribe for a device that is not excluded: the device object
\* is created when it is not tracked yet and the UPDATE message is emitted
processPostSubscribe(tracked) == [tracked |-> TRUE, notified |-> TRUE]

\* data.toString().trim().split('\r').forEach((dataline) => ...): the
\* datalines from index on, against the outcome acc of the datalines before;
\* an exception ends the forEach
RECURSIVE ProcessLines(_, _, _)
ProcessLines(lines, index, acc) ==
    IF index > Len(lines) \/ acc.threw
      THEN acc
    ELSE LET dataline == lines[index]
         IN  IF Len(MatchingCommands(dataline)) = 0
               THEN ProcessLines(lines, index + 1, [acc EXCEPT !.trace = Append(@, Ignored(dataline))])
             ELSE LET c0 == CommandOf(dataline)
                      c1 == RemainderOf(dataline)
                      r == ApplyCommand(acc.value, c0, c1)
                      post == IF r.threw THEN [tracked |-> acc.tracked, notified |-> FALSE]
                              ELSE processPostSubscribe(acc.tracked)
                  IN  ProcessLines(lines, index + 1,
                                   [value |-> r.value,
                                    tracked |-> post.tracked,
                                    emitted |-> IF post.notified THEN r.value ELSE acc.emitted,
                                    threw |-> r.threw,
                                    trace |-> Append(acc.trace,
                                                     [line |-> dataline, matched |-> TRUE, c0 |-> c0, c1 |-> c1,
                                                      changed |-> r.value # acc.value, threw |-> r.threw,
                                                      notified |-> post.notified])])

\* the telegram lines a read completes, given the text carried over from the
\* reads before it: every piece of the data that is followed by a terminator
Assembled(carry, data) ==
    LET pieces == Split(data, "\r")
    IN  IF Len(pieces) = 1 THEN << >>
        ELSE <<carry \o pieces[1]>> \o SubSeq(pieces, 2, Len(pieces) - 1)

\* the text of the line left without its terminator at the end of a read
CarryAfter(carry, data) ==
    LET pieces == Split(data, "\r")
    IN  IF Len(pieces) = 1 THEN carry \o data ELSE pieces[Len(pieces)]

NoRead == [sent |-> 0, carry |-> "", aligned |-> FALSE, threw |-> FALSE,
           assembled |-> << >>, trace |-> << >>]

\* the receiver writes one telegram to the socket
DeviceSend(telegram) ==
    /\ tel.sent < MaxSent
    /\ stream' = stream \o telegram \o "\r"
    /\ tel' = [tel EXCEPT !.sent = @ + 1]
    /\ UNCHANGED <<rawData, trackedDevices, canonical>>
    /\ UNCHANGED <<ovVars, netVars>>

\* the socket hands the next k characters to the 'data' handler
Read(k) ==
    /\ k \in 1..Len(stream)
    /\ LET data == SubSeq(stream, 1, k)
           r == ProcessLines(Split(Trim(data), "\r"), 1,
                             [value |-> rawData, tracked |-> trackedDevices, emitted |-> rawData,
                              threw |-> FALSE, trace |-> << >>])
       IN  /\ rawData' = r.value
           /\ \E emitted \in {r.emitted} :
                 canonical' = IF \E i \in 1..Len(r.trace) : r.trace[i].notified
                                THEN processData(emitted)
                                ELSE canonical
           /\ trackedDevices' = r.tracked
           /\ stream' = SubSeq(stream, k + 1, Len(stream))
           /\ tel' = [sent |-> tel.sent,
                      carry |-> CarryAfter(tel.carry, data),
                      aligned |-> tel.carry = "" /\ CharAt(data, Len(data)) = "\r",
                      threw |-> r.threw,
                      assembled |-> Assembled(tel.carry, data),
                      trace |-> r.trace]
    /\ UNCHANGED <<ovVars, netVars>>

(***************************************************************************)
(* denon.js: the persistent sockets of the registered receivers, the       *)
(* connection check of the constructor and #set                            *)
(***************************************************************************)
\* the keys of this.#rawData: the MAC addresses of two discovered receivers
Registered == {"00:05:CD:00:00:01", "00:05:CD:00:00:02"}

\* what the last step on the sockets was
Operation(name, uuid, command) == [name |-> name, uuid |-> uuid, command |-> command]

\* no socket has been created and #set has sent nothing; tcpSocket holds
\* "undefined" or the readyState of the socket in the slot; connections is
\* this.#connections, which nothing ever adds to; the interval timer of
\* didFinishLaunching is armed and the listeners of the constructor are set;
\* window tells which caller of discoverDevices awaits UDPDISCOVERYDONE, the
\* didFinishLaunching handler ("launch"), the interval callback ("interval")
\* or none; live counts the sockets net.createConnection has made for a receiver that
\* are connecting or connected
NoConn ==
    [tcpSocket |-> [macAddress \in Registered |-> "undefined"],
     live |-> [macAddress \in Registered |-> 0],
     connections |-> {},
     connectionTimer |-> TRUE,
     window |-> "none",
     listening |-> TRUE,
     reconnectViaREST |-> [macAddress \in Registered |-> FALSE],
     tick |-> FALSE,
     op |-> Operation("none", Undefined, ""),
     created |-> {},
     written |-> << >>,
     requests |-> << >>,
     threw |-> FALSE]

\* the outcome of a step on the sockets that writes and requests nothing
Quiet(c, op) == [c EXCEPT !.op = op, !.created = {}, !.written = << >>, !.requests = << >>, !.threw = FALSE]

\* a connection check that creates a socket for the first receiver only
subscribeTelnetFirstOnly(c, macAddress) ==
    IF c.tcpSocket[macAddress] = "undefined" /\ macAddress = "00:05:CD:00:00:01"
      THEN "opening"
      ELSE c.tcpSocket[macAddress]

\* a connection check that creates a socket whatever the slot holds
subscribeTelnetAnySlot(c, macAddress) == "opening"

\* #subscribeTelnet: a socket is created when the slot is empty
subscribeTelnet(c, macAddress) ==
    IF c.tcpSocket[macAddress] = "undefined" THEN "opening" ELSE c.tcpSocket[macAddress]

\* Object.keys(this.#rawData).forEach((macAddress) => this.#subscribeTelnet(macAddress))
subscribeAll(c) ==
    [Quiet(c, Operation("cycle", Undefined, "")) EXCEPT
       !.tcpSocket = [macAddress \in Registered |-> subscribeTelnet(c, macAddress)],
       !.reconnectViaREST = [macAddress \in Registered |->
                                IF c.tcpSocket[macAddress] = "undefined"
                                  THEN FALSE
                                  ELSE c.reconnectViaREST[macAddress]],
       !.created = {macAddress \in Registered :
                       subscribeTelnet(c, macAddress) # c.tcpSocket[macAddress]},
       !.live = [macAddress \in Registered |->
                    IF subscribeTelnet(c, macAddress) # c.tcpSocket[macAddress]
                      THEN c.live[macAddress] + 1
                      ELSE c.live[macAddress]],
       !.tick = ~c.tick]

\* the body of the interval callback after discoverDevices has returned:
\* #subscribeTelnet for every key of this.#rawData
ConnectionCheck ==
    /\ conn.connectionTimer
    /\ conn' = subscribeAll(conn)
    /\ UNCHANGED <<ovVars, telVars, fw, discovery>>

\* the promise of EventEmitter.once(this.#eventEmitter, UDPDISCOVERYDONE) is
\* resolved by every emit, whether its listener is still registered or not
ResumesUnlistened(c) == c.window # "none"

\* the promise of EventEmitter.once(this.#eventEmitter, UDPDISCOVERYDONE) is
\* resolved by the emit when its listener is still registered on the emitter;
\* removeAllListeners removes it and the promise stays pending
Resumes(c) == c.window # "none" /\ c.listening

\* the interval callback calls discoverDevices with autoDiscover on: the
\* search socket is made and the callback awaits UDPDISCOVERYDONE
DiscoveryStart ==
    /\ discovery.autoDiscover
    /\ conn.connectionTimer
    /\ conn.window = "none"
    /\ conn' = [Quiet(conn, Operation("discover", Undefined, "")) EXCEPT !.window = "interval"]
    /\ UNCHANGED <<ovVars, telVars, fw, discovery>>

\* the timer of the discovery window closes the search socket and emits
\* UDPDISCOVERYDONE: a caller that resumes subscribes every receiver, and the
\* didFinishLaunching handler then starts the interval
DiscoveryDone ==
    /\ conn.window # "none"
    /\ conn' = IF Resumes(conn)
                 THEN [subscribeAll(conn) EXCEPT
                         !.window = "none",
                         !.connectionTimer = conn.connectionTimer \/ conn.window = "launch"]
                 ELSE [Quiet(conn, Operation("timeout", Undefined, "")) EXCEPT !.window = "none"]
    /\ UNCHANGED <<ovVars, telVars, fw, discovery>>

\* the connect callback: keep-alive and the two queries written to the socket
SocketConnect(macAddress) ==
    /\ conn.tcpSocket[macAddress] = "opening"
    /\ conn' = [Quiet(conn, Operation("connect", macAddress, "")) EXCEPT
                  !.tcpSocket[macAddress] = "open",
                  !.written = <<"SSINFFRM ?\r", "VIALL?\r">>]
    /\ UNCHANGED <<ovVars, telVars, fw, discovery>>

\* the codes of the 'error' event of a socket in a readyState
ErrorCodes(readyState) ==
    IF readyState = "opening" THEN {"ECONNREFUSED", "ETIMEDOUT"}
    ELSE IF readyState = "open" THEN {"ECONNRESET"}
    ELSE {}

\* the 'error' handler; the socket is destroyed and its 'close' event follows
SocketError(macAddress, code) ==
    /\ code \in ErrorCodes(conn.tcpSocket[macAddress])
    /\ conn' = [Quiet(conn, Operation("error", macAddress, code)) EXCEPT
                  !.tcpSocket[macAddress] = "closed",
                  !.live[macAddress] = @ - 1,
                  !.reconnectViaREST[macAddress] = (code = "ECONNREFUSED") \/ @]
    /\ UNCHANGED <<ovVars, telVars, fw, discovery>>

\* the receiver ends the connection; the 'close' event follows
SocketEnd(macAddress) ==
    /\ conn.tcpSocket[macAddress] = "open"
    /\ conn' = [Quiet(conn, Operation("end", macAddress, "")) EXCEPT
                  !.tcpSocket[macAddress] = "closed",
                  !.live[macAddress] = @ - 1]
    /\ UNCHANGED <<ovVars, telVars, fw, discovery>>

\* the 'close' handler empties the slot
SocketClose(macAddress) ==
    /\ conn.tcpSocket[macAddress] = "closed"
    /\ conn' = [Quiet(conn, Operation("close", macAddress, "")) EXCEPT !.tcpSocket[macAddress] = "undefined"]
    /\ UNCHANGED <<ovVars, telVars, fw, discovery>>

\* #set(uuid, values) for values.uuid and values.command: nothing for a key
\* that is not registered; one line on an open socket; otherwise the URL of
\* the request is built from this.#rawData[deviceUUID], and deviceUUID is
\* not declared, so a ReferenceError is raised before fetchWrapper is called
set(c, uuid, command) ==
    IF uuid \notin Registered
      THEN Quiet(c, Operation("set", uuid, command))
    ELSE IF c.tcpSocket[uuid] = "open"
      THEN [Quiet(c, Operation("set", uuid, command)) EXCEPT !.written = <<command \o "\r">>]
    ELSE [Quiet(c, Operation("set", uuid, command)) EXCEPT !.threw = TRUE]

\* the commands of the accessory used here
SetCommands == {"ZMON", "MVUP", "SITUNER"}

SetIntent(uuid, command) ==
    /\ conn.listening
    /\ conn' = set(conn, uuid, command)
    /\ UNCHANGED <<ovVars, telVars, fw, discovery>>

\* the 'shutdown' handler: the socket of every entry of this.#connections is
\* ended, the interval timer is cleared and the listeners are removed
Shutdown ==
    /\ conn.listening
    /\ conn' = [Quiet(conn, Operation("shutdown", Undefined, "")) EXCEPT
                  !.tcpSocket = [macAddress \in Registered |->
                                    IF macAddress \in conn.connections
                                         /\ conn.tcpSocket[macAddress] # "undefined"
                                      THEN "closed"
                                      ELSE conn.tcpSocket[macAddress]],
                  !.live = [macAddress \in Registered |->
                               IF macAddress \in conn.connections
                                    /\ conn.tcpSocket[macAddress] \in {"opening", "open"}
                                 THEN conn.live[macAddress] - 1
                                 ELSE conn.live[macAddress]],
                  !.connectionTimer = FALSE,
                  !.listening = FALSE]
    /\ UNCHANGED <<ovVars, telVars, fw, discovery>>

(***************************************************************************)
(* denon.js: fetchWrapper                                                  *)
(***************************************************************************)
\* response.ok: the status is in the range 200-299
IsOk(status) == status \in 200..299

\* the outcome of a call: what it handed to its caller (nothing, a response
\* or an error), the status of the last response, the requests made so far
\* and options.retry as the call left it
Outcome(outcome, status, attempts, retry) ==
    [outcome |-> outcome, status |-> status, attempts |-> attempts, retry |-> retry]

\* fetchWrapper(method, url, options, data, response) with a valid url and
\* options.retry = retry, after attempts requests; server[i] is the status
\* of the response to the i-th request, and cloneable tells whether the
\* runtime can structuredClone a Response (a runtime that marks Response as
\* uncloneable raises a DataCloneError instead)
RECURSIVE fetchWrapper(_, _, _, _, _)
fetchWrapper(method, retry, server, attempts, cloneable) ==
    IF method # "get" /\ method # "post"
      THEN Outcome("undefined", 0, attempts, retry)
    ELSE IF retry > 0
      THEN LET status == server[attempts + 1]
           IN  IF ~IsOk(status) /\ retry > 1
                 THEN IF ~cloneable
                        THEN Outcome("DataCloneError", status, attempts + 1, retry - 1)
                      ELSE LET inner == fetchWrapper(method, retry - 1, server, attempts + 1, cloneable)
                           IN  IF inner.outcome = "response" /\ ~IsOk(inner.status) /\ inner.retry = 0
                                 THEN Outcome("HTTPError", inner.status, inner.attempts, inner.retry)
                                 ELSE inner
               ELSE IF ~IsOk(status) /\ retry = 0
                 THEN Outcome("HTTPError", status, attempts + 1, retry)
               ELSE Outcome("response", status, attempts + 1, retry)
    ELSE Outcome("undefined", 0, attempts, retry)

\* fetchWrapper has not been called
NoFetch ==
    [server |-> << >>, cloneable |-> TRUE, method |-> "", given |-> FALSE, configured |-> 0,
     result |-> Outcome("none", 0, 0, 0)]

(***************************************************************************)
(* denon.js: discoverDevices                                               *)
(***************************************************************************)
\* the addresses that answer the search or are configured as devices
Addresses == {"192.168.1.10", "192.168.1.11"}

\* what #getDeviceInfo resolves to: undefined when the address does not
\* answer or its descriptor has no MacAddress, otherwise the descriptor of a
\* receiver as it is at the time of the fetch
DeviceInfo(macAddress, powerStatus) == [MacAddress |-> macAddress, GetAllZonePowerStatus |-> powerStatus]

DeviceInfos ==
    {DeviceInfo(Undefined, "")}
    \cup {DeviceInfo(macAddress, powerStatus) : macAddress \in Registered, powerStatus \in {"ON", "OFF"}}

\* this.#rawData[macAddress] === undefined
NoRecord == [present |-> FALSE, system |-> "", value |-> "", tcpSocket |-> "undefined"]

\* the record made for a receiver found at an address
NewRecord(system, deviceInfo) ==
    [present |-> TRUE, system |-> system, value |-> deviceInfo.GetAllZonePowerStatus,
     tcpSocket |-> "undefined"]

\* what a handler leaves: the registry, whether it made a record and whether
\* it raised
Handled(registry, created, threw) == [rawData |-> registry, created |-> created, threw |-> threw]

\* a handler that makes a record for every reply
messageHandlerReplaces(registry, address, deviceInfo) ==
    IF deviceInfo.MacAddress = Undefined
      THEN Handled(registry, FALSE, FALSE)
      ELSE Handled([registry EXCEPT ![deviceInfo.MacAddress] = NewRecord(address, deviceInfo)],
                   TRUE, FALSE)

\* the 'message' handler of the search socket once #getDeviceInfo has
\* resolved: a record is made for a MacAddress that has none, and the address
\* of the record is set to the address of the reply
messageHandler(registry, address, deviceInfo) ==
    IF deviceInfo.MacAddress = Undefined
      THEN Handled(registry, FALSE, FALSE)
      ELSE LET macAddress == deviceInfo.MacAddress
               isNew == ~registry[macAddress].present
               found == IF isNew
                          THEN [registry EXCEPT ![macAddress] = NewRecord(address, deviceInfo)]
                          ELSE registry
           IN  Handled([found EXCEPT ![macAddress].system = address], isNew, FALSE)

\* the callback of config.devices.forEach once #getDeviceInfo has resolved:
\* an undefined result is logged and then dereferenced, which raises a
\* TypeError; a record is made for a MacAddress that has none; the address is
\* set inside that branch only
staticHandler(registry, system, deviceInfo) ==
    IF deviceInfo.MacAddress = Undefined
      THEN Handled(registry, FALSE, TRUE)
    ELSE IF ~registry[deviceInfo.MacAddress].present
      THEN Handled([registry EXCEPT ![deviceInfo.MacAddress] = NewRecord(system, deviceInfo)],
                   TRUE, FALSE)
    ELSE Handled(registry, FALSE, FALSE)

\* the last step of discovery
Step(name, address, macAddress, racing) ==
    [name |-> name, address |-> address, macAddress |-> macAddress, racing |-> racing]

\* nothing has been discovered and no handler of discoverDevices is in
\* flight; created and replies count, per MacAddress, the records made and
\* the replies handled; exclude holds the serial numbers whose entry of
\* config.devices has exclude set
NoDiscovery ==
    [autoDiscover |-> TRUE,
     rawData |-> [macAddress \in Registered |-> NoRecord],
     inFlight |-> [address \in Addresses |-> 0],
     op |-> Step("none", "", Undefined, FALSE),
     created |-> [macAddress \in Registered |-> 0],
     replies |-> [macAddress \in Registered |-> 0],
     threw |-> FALSE,
     exclude |-> {}]

\* a reply to the search arrives from an address: its handler awaits
\* #getDeviceInfo
Message(address) ==
    /\ discovery.autoDiscover
    /\ discovery.inFlight[address] < MaxInFlight
    /\ discovery' = [discovery EXCEPT !.inFlight[address] = @ + 1,
                                      !.op = Step("message", address, Undefined, FALSE),
                                      !.threw = FALSE]
    /\ UNCHANGED <<ovVars, telVars, conn, fw>>

\* discoverDevices with autoDiscover off: the callback of every configured
\* device with a system awaits #getDeviceInfo
StaticRound ==
    /\ ~discovery.autoDiscover
    /\ \A address \in Addresses : discovery.inFlight[address] < MaxInFlight
    /\ discovery' = [discovery EXCEPT !.inFlight = [address \in Addresses |-> @[address] + 1],
                                      !.op = Step("round", "", Undefined, FALSE),
                                      !.threw = FALSE]
    /\ UNCHANGED <<ovVars, telVars, conn, fw>>

\* #getDeviceInfo resolves for one handler in flight, which runs to its end
Resume(address, deviceInfo) ==
    /\ discovery.inFlight[address] > 0
    /\ \E h \in {IF discovery.autoDiscover
                    THEN messageHandler(discovery.rawData, address, deviceInfo)
                    ELSE staticHandler(discovery.rawData, address, deviceInfo)} :
          discovery' =
              [discovery EXCEPT
                 !.rawData = h.rawData,
                 !.inFlight[address] = @ - 1,
                 !.op = Step("resume", address, deviceInfo.MacAddress,
                             \E other \in Addresses :
                                 discovery.inFlight[other] > (IF other = address THEN 1 ELSE 0)),
                 !.created = [macAddress \in Registered |->
                                IF h.created /\ macAddress = deviceInfo.MacAddress
                                  THEN Min(@[macAddress] + 1, 2)
                                  ELSE @[macAddress]],
                 !.replies = [macAddress \in Registered |->
                                IF macAddress = deviceInfo.MacAddress
                                  THEN Min(@[macAddress] + 1, 2)
                                  ELSE @[macAddress]],
                 !.threw = h.threw]
    /\ UNCHANGED <<ovVars, telVars, conn, fw>>

\* #subscribeTelnet for every key of this.#rawData
Subscribe ==
    /\ \E macAddress \in Registered : discovery.rawData[macAddress].present
    /\ discovery' =
          [discovery EXCEPT
             !.rawData = [macAddress \in Registered |->
                            IF @[macAddress].present
                              THEN [@[macAddress] EXCEPT
                                      !.tcpSocket =
                                          subscribeTelnet(
                                              [tcpSocket |-> [m \in Registered |-> discovery.rawData[m].tcpSocket]],
                                              macAddress)]
                              ELSE @[macAddress]],
             !.op = Step("subscribe", "", Undefined, FALSE),
             !.threw = FALSE]
    /\ UNCHANGED <<ovVars, telVars, conn, fw>>

InitNet == conn = NoConn /\ fw = NoFetch /\ discovery = NoDiscovery

InitTelnet ==
    /\ rawData = DescriptorValue(DeviceZones)
    /\ trackedDevices = FALSE
    /\ stream = ""
    /\ tel = NoRead
    /\ canonical = NoDevice

(***************************************************************************)
(* denon.js: the 'data' handlers of two receivers, each a closure over the *)
(* MacAddress of its own record, and #processPostSubscribe over the        *)
(* devices of every record of this.#rawData                                *)
(***************************************************************************)
\* Object.entries(this.#rawData): the records in the order they were made in
RegisteredOrder == <<"00:05:CD:00:00:01", "00:05:CD:00:00:02">>

\* tempDevice of #processData as far as #processPostSubscribe reads it:
\* excluded is looked up in the configuration under the serial number the
\* record holds when it is processed
Processed(value, exclude) ==
    [excluded |-> value.sdp.serialNumber \in exclude,
     serialNumber |-> value.sdp.serialNumber,
     hkUsername |-> value.deviceInfo.MacAddress]

\* devices of #processData(''): devices[tempDevice.serialNumber] = tempDevice
\* for one record after the other, so that of two records with one serial
\* number the later one is kept
RECURSIVE processDevices(_, _, _, _)
processDevices(registry, exclude, index, devices) ==
    IF index > Len(RegisteredOrder)
      THEN devices
    ELSE processDevices(registry, exclude, index + 1,
                        SetKey(devices, registry[RegisteredOrder[index]].value.sdp.serialNumber,
                               Processed(registry[RegisteredOrder[index]].value, exclude)))

\* #processPostSubscribe over Object.values(devices): the device object of a
\* device that is not tracked and not excluded is made and tracked, and the
\* UPDATE message is emitted to every device that is not excluded and is
\* tracked by then
processDevicesPostSubscribe(devices, tracked) ==
    LET created == {devices[s].hkUsername :
                       s \in {k \in DOMAIN devices :
                                 devices[k].hkUsername \notin tracked /\ ~devices[k].excluded}}
        notified == {devices[s].hkUsername :
                        s \in {k \in DOMAIN devices :
                                  ~devices[k].excluded /\ devices[k].hkUsername \in tracked \cup created}}
    IN  [tracked |-> tracked \cup created, created |-> created, notified |-> notified]

\* a dataline that starts a pass of #processPostSubscribe: a recognized
\* dataline whose statements did not raise
StartsPass(r) == r.matched /\ ~r.threw

\* what a 'data' handler leaves: the registry, whether the dataline was
\* recognized and whether the handler raised
Received(registry, matched, threw) == [rawData |-> registry, matched |-> matched, threw |-> threw]

\* a handler that writes the record made first, whichever socket the data
\* came from
dataHandlerFirstRecord(registry, macAddress, dataline) ==
    IF Len(MatchingCommands(dataline)) = 0
      THEN Received(registry, FALSE, FALSE)
    ELSE CHOOSE received \in {Received([registry EXCEPT ![RegisteredOrder[1]].value = r.value], TRUE, r.threw) :
                                 r \in {ApplyCommand(registry[macAddress].value, CommandOf(dataline),
                                                     RemainderOf(dataline))}} : TRUE

\* the 'data' handler of the socket of macAddress for one dataline: every
\* statement writes this.#rawData[macAddress].value
dataHandler(registry, macAddress, dataline) ==
    IF Len(MatchingCommands(dataline)) = 0
      THEN Received(registry, FALSE, FALSE)
    ELSE CHOOSE received \in {Received([registry EXCEPT ![macAddress].value = r.value], TRUE, r.threw) :
                                 r \in {ApplyCommand(registry[macAddress].value, CommandOf(dataline),
                                                     RemainderOf(dataline))}} : TRUE

\* no data has arrived: created counts, per hkUsername, the device objects made
NoData ==
    [sent |-> 0, macAddress |-> Undefined, line |-> "", matched |-> FALSE, threw |-> FALSE,
     created |-> [macAddress \in Registered |-> 0], notified |-> {}, excluded |-> {}]

\* the socket of a receiver hands one dataline to its 'data' handler
Data(macAddress, dataline) ==
    /\ tel.sent < MaxSent
    /\ discovery.rawData[macAddress].tcpSocket = "open"
    /\ \E r \in {dataHandler(discovery.rawData, macAddress, Trim(dataline))} :
          \E devices \in {processDevices(r.rawData, discovery.exclude, 1, << >>)} :
             \E post \in {IF StartsPass(r)
                            THEN processDevicesPostSubscribe(devices, trackedDevices)
                            ELSE [tracked |-> trackedDevices, created |-> {}, notified |-> {}]} :
                /\ discovery' = [discovery EXCEPT !.rawData = r.rawData]
                /\ trackedDevices' = post.tracked
                /\ tel' = [sent |-> tel.sent + 1,
                           macAddress |-> macAddress,
                           line |-> dataline,
                           matched |-> r.matched,
                           threw |-> r.threw,
                           created |-> [m \in Registered |->
                                           tel.created[m] + (IF m \in post.created THEN 1 ELSE 0)],
                           notified |-> post.notified,
                           excluded |-> IF StartsPass(r)
                                          THEN {devices[s].hkUsername :
                                                   s \in {k \in DOMAIN devices : devices[k].excluded}}
                                          ELSE {}]
    /\ UNCHANGED <<rawData, stream, canonical>>
    /\ UNCHANGED <<ovVars, conn, fw>>

(***************************************************************************)
(* receiver.js: #buildInputs, #setInputName, #setInputVisability,          *)
(* setZoneVolume and setZoneMute                                           *)
(***************************************************************************)
\* label.replace('/', ' - '): the first slash only
ReplaceSlash(label) ==
    LET i == IndexOf(label, "/")
    IN  IF i = 0 THEN label
        ELSE SubSeq(label, 1, i - 1) \o " - " \o SubSeq(label, i + 1, Len(label))

\* the condition under which #buildInputs makes a service for an input
IsBuilt(input, includePresets) == includePresets \/ ~StartsWith(input.uri, "PRESET")

\* the input source service of one input; the labels of the inputs are
\* letters, digits, spaces and hyphens once the slash is replaced
InputService(input) ==
    [Identifier |-> crc32(input.uri),
     ConfiguredName |-> ReplaceSlash(input.label),
     CurrentVisibilityState |-> IF input.hidden THEN "HIDDEN" ELSE "SHOWN",
     TargetVisibilityState |-> IF input.hidden THEN "HIDDEN" ELSE "SHOWN"]

RECURSIVE InputServices(_, _, _)
InputServices(inputs, index, includePresets) ==
    IF index > Len(inputs) THEN << >>
    ELSE (IF IsBuilt(inputs[index], includePresets) THEN <<InputService(inputs[index])>> ELSE << >>)
            \o InputServices(inputs, index + 1, includePresets)

\* #buildInputs(includePresets): a service per input, pushed on AMPInputs,
\* and the label of the input fixed up in place
buildInputs(includePresets) ==
    /\ services' = [services EXCEPT !.AMPInputs = @ \o InputServices(deviceData.inputs, 1, includePresets)]
    /\ deviceData' = [deviceData EXCEPT
                        !.inputs = [i \in DOMAIN @ |->
                                       IF IsBuilt(@[i], includePresets)
                                         THEN [@[i] EXCEPT !.label = ReplaceSlash(@)] ELSE @[i]]]
    /\ commands' = << >>
    /\ ov' = [op |-> "build", set |-> NoSet, pass |-> NoPass]
    /\ UNCHANGED <<cachedOptions, exposed>>

\* findIndex: the first input whose key hashes to the identifier, 0 for -1
FindIndex(inputs, identifier) ==
    LET found == {i \in 1..Len(inputs) : crc32(inputs[i].uri) = identifier}
    IN  IF found = {} THEN 0 ELSE CHOOSE i \in found : \A j \in found : i <= j

\* this.set(values) of #setInputName, sent whatever the input allows
NameCommandsUnflagged(input, value) ==
    IF StartsWith(input.uri, "PRESET")
      THEN <<"OPTPN" \o Substring(input.uri, 6, 8) \o PadEnd(Substring(value, 0, 8), 9, " ")
                \o Split(input.title, " ")[2]>>
      ELSE <<"SSFUN" \o input.uri \o " " \o value>>

\* this.set(values) of #setInputName
NameCommands(input, value) ==
    IF input.canrename
      THEN IF StartsWith(input.uri, "PRESET")
             THEN <<"OPTPN" \o Substring(input.uri, 6, 8) \o PadEnd(Substring(value, 0, 8), 9, " ")
                       \o Split(input.title, " ")[2]>>
             ELSE <<"SSFUN" \o input.uri \o " " \o value>>
      ELSE << >>

\* this.set(values) of #setInputVisability
VisibilityCommands(input, value) ==
    IF input.canhide
      THEN IF StartsWith(input.uri, "PRESET")
             THEN <<"OPTPSTUNER" \o Substring(input.uri, 6, 8) \o " "
                       \o (IF value = "SHOWN" THEN "OFF" ELSE "ON")>>
             ELSE <<"SSSOD" \o input.uri \o " " \o (IF value = "SHOWN" THEN "USE" ELSE "DEL")>>
      ELSE << >>

\* the intent a handler was called with
Intent(name, service, value) ==
    [op |-> name, set |-> [NoSet EXCEPT !.zone = service, !.value = value], pass |-> NoPass]

\* #setInputName(inputService, value), inputService the service-th of AMPInputs
setInputName(service, value) ==
    /\ ov' = Intent("name", service, value)
    /\ IF value # ""
         THEN \E index \in {FindIndex(deviceData.inputs, services.AMPInputs[service].Identifier)} :
                /\ services' = [services EXCEPT !.AMPInputs[service].ConfiguredName = value]
                /\ IF index # 0
                     THEN /\ commands' = NameCommands(deviceData.inputs[index], value)
                          /\ cachedOptions' = PutOverride(cachedOptions, "inputs",
                                                 [deviceData.inputs EXCEPT ![index].label = value])
                     ELSE /\ commands' = << >>
                          /\ cachedOptions' = cachedOptions
         ELSE /\ commands' = << >>
              /\ UNCHANGED <<cachedOptions, services>>
    /\ UNCHANGED <<deviceData, exposed>>

\* #setInputVisability(inputService, value)
setInputVisability(service, value) ==
    /\ ov' = Intent("visibility", service, value)
    /\ IF value \in {"HIDDEN", "SHOWN"}
         THEN \E index \in {FindIndex(deviceData.inputs, services.AMPInputs[service].Identifier)} :
                /\ services' = [services EXCEPT !.AMPInputs[service].CurrentVisibilityState = value,
                                                !.AMPInputs[service].TargetVisibilityState = value]
                /\ IF index # 0
                     THEN /\ commands' = VisibilityCommands(deviceData.inputs[index], value)
                          /\ cachedOptions' = PutOverride(cachedOptions, "inputs",
                                                 [deviceData.inputs EXCEPT ![index].hidden = (value = "HIDDEN")])
                     ELSE /\ commands' = << >>
                          /\ cachedOptions' = cachedOptions
         ELSE /\ commands' = << >>
              /\ UNCHANGED <<cachedOptions, services>>
    /\ UNCHANGED <<deviceData, exposed>>

\* values.command as #set reads it from the object a handler passes
ValuesCommand(key, text) == IF key = "command" THEN text ELSE Undefined

\* setZoneVolume(zone, value)
setZoneVolume(zone, value) ==
    /\ ov' = Intent("volume", zone, value)
    /\ commands' = IF services.speakerActive[zone]
                     THEN <<ValuesCommand("command",
                               (IF zone = 1 THEN "MV" ELSE "Z" \o ToString(zone))
                                  \o (IF value = "INCREMENT" THEN "UP" ELSE "DOWN"))>>
                     ELSE << >>
    /\ UNCHANGED <<deviceData, cachedOptions, exposed, services>>

\* setZoneMute(zone, value): the key of the object it passes is 'command:'
setZoneMute(zone, value) ==
    /\ ov' = Intent("mute", zone, value)
    /\ commands' = IF services.speakerActive[zone]
                     THEN <<ValuesCommand("command:",
                               (IF zone = 1 THEN "MU" ELSE "Z" \o ToString(zone) \o "MU")
                                  \o (IF value THEN "ON" ELSE "OFF"))>>
                     ELSE << >>
    /\ UNCHANGED <<deviceData, cachedOptions, exposed, services>>

(***************************************************************************)
(* The accessory: local sets and canonical updates in any order            *)
(***************************************************************************)
Init == InitReceiver /\ InitTelnet /\ InitNet

SetPower ==
    /\ \E zone \in Zones, value \in {"ACTIVE", "INACTIVE"} : setZonePower(zone, value)
    /\ UNCHANGED <<telVars, netVars>>

SetInput ==
    /\ \E zone \in Zones, value \in InputIdentifiers : setZoneInput(zone, value)
    /\ UNCHANGED <<telVars, netVars>>

\* a canonical update that reports what the accessory already holds
StaleUpdate == update(deviceData.zones) /\ UNCHANGED <<telVars, netVars>>

\* a canonical update that reports a change
ChangedUpdate ==
    /\ \E zones \in CanonicalUpdates(deviceData.zones) \ {deviceData.zones} : update(zones)
    /\ UNCHANGED <<telVars, netVars>>

Next == SetPower \/ SetInput \/ StaleUpdate \/ ChangedUpdate

Spec == Init /\ [][Next]_vars

\* canonical updates keep arriving and the receiver goes on reporting changes
LiveSpec == Init /\ [][Next]_vars /\ WF_vars(ChangedUpdate)

(***************************************************************************)
(* The persistent channel: telegrams sent by the receiver reach the 'data' *)
(* handler in reads of any length                                          *)
(***************************************************************************)
Telegrams == {"ZMON", "MV455", "PWON", "SSSODCD DEL", "Z2MUON"}

Send == \E telegram \in Telegrams : DeviceSend(telegram)

Receive == \E k \in 1..Len(stream) : Read(k)

TelnetNext == Send \/ Receive

TelnetSpec == Init /\ [][TelnetNext]_vars

(***************************************************************************)
(* Prefix selection: one line of any shape, alone in a read or followed by *)
(* another telegram                                                        *)
(***************************************************************************)
Range(s) == {s[i] : i \in 1..Len(s)}

LinePrefixes == Range(DENON_COMMANDS) \cup {"PW", "T", "Z", "TFANNAM", ""}

LineSuffixes == {"", "ON", " ON", "OFF ", "NAME", "NAMEBBC R2  ", "45", "CD DEL", "?"}

PrefixInit ==
    /\ InitReceiver
    /\ InitNet
    /\ rawData = DescriptorValue(DeviceZones)
    /\ trackedDevices = FALSE
    /\ tel = NoRead
    /\ canonical = NoDevice
    /\ \E prefix \in LinePrefixes, suffix \in LineSuffixes, next \in {"", "MUON\r"} :
          stream = prefix \o suffix \o "\r" \o next

\* the whole stream arrives in one read
ReadAll == Len(stream) > 0 /\ Read(Len(stream))

PrefixNext == ReadAll

PrefixSpec == PrefixInit /\ [][PrefixNext]_vars

(***************************************************************************)
(* Volume telegrams: every numeric code of up to MaxCodeLen digits, for    *)
(* zone 1 (MV) and zone 2 (Z2)                                             *)
(***************************************************************************)
RECURSIVE DigitStrings(_)
DigitStrings(n) ==
    IF n = 0 THEN {""}
    ELSE {s \o CharAt(Digits, d) : s \in DigitStrings(n - 1), d \in 1..Len(Digits)}

VolumeCodes == UNION {DigitStrings(n) : n \in 1..MaxCodeLen}

VolumeInit ==
    /\ InitReceiver
    /\ InitNet
    /\ rawData = DescriptorValue(DeviceZones)
    /\ trackedDevices = FALSE
    /\ tel = NoRead
    /\ canonical = NoDevice
    /\ \E prefix \in {"MV", "Z2"}, code \in VolumeCodes : stream = prefix \o code \o "\r"

DecodeVolume == ReadAll

VolumeNext == DecodeVolume

VolumeSpec == VolumeInit /\ [][VolumeNext]_vars

(***************************************************************************)
(* The volume scale: every raw volume of zone 1 between -79.5 and 18 dB in *)
(* steps of 0.1 dB, normalized by #processData when a telegram is notified *)
(***************************************************************************)
RawVolumes == {ToFixed1(tenths) : tenths \in VolumeMin..VolumeMax}

WithVolume(value, zone, volume) == [value EXCEPT !.GetAllZoneVolume[zone].volume = volume]

ScaleInit ==
    /\ InitReceiver
    /\ InitNet
    /\ \E volume \in RawVolumes : rawData = WithVolume(DescriptorValue(DeviceZones), 1, volume)
    /\ trackedDevices = FALSE
    /\ tel = NoRead
    /\ canonical = NoDevice
    /\ stream = "ZMON\r"

ScaleNext == ReadAll

ScaleSpec == ScaleInit /\ [][ScaleNext]_vars

(***************************************************************************)
(* Display-mode telegrams: receivers of 1, 2 and 3 zones, every zone with  *)
(* a raw volume and the display mode it had before                         *)
(***************************************************************************)
\* the handler sets the display mode of zone1, zone2 and zone3
MaxZones == 3

\* disptype and dispvalue as the descriptor fetch and the volume telegrams
\* leave them for a raw volume
Rendered(volume, disptype) ==
    [volume |-> volume,
     disptype |-> disptype,
     dispvalue |-> IF disptype = "ABSOLUTE" THEN HalfStepsToFixed1(VolumeHalfSteps(volume))
                   ELSE volume \o "dB"]

DisplayInit ==
    /\ InitReceiver
    /\ InitNet
    /\ \E n \in 1..MaxZones, disptype \in {"ABSOLUTE", "RELATIVE"} :
          \E volumes \in [1..n -> {"-40.0", "18.0", "--"}] :
             rawData = [DescriptorValue(n) EXCEPT
                          !.GetAllZoneVolume = [z \in 1..n |-> Rendered(volumes[z], disptype)]]
    /\ trackedDevices = FALSE
    /\ tel = NoRead
    /\ canonical = NoDevice
    /\ \E mode \in {"ABS", "REL"}, gap \in {"", " "} : stream = "SSVCTZMADIS" \o gap \o mode \o "\r"

DisplayNext == ReadAll

DisplaySpec == DisplayInit /\ [][DisplayNext]_vars

(***************************************************************************)
(* Source telegrams: a receiver whose tables list every known source, and  *)
(* one rename (SSFUN) or hide (SSSOD) telegram naming a source             *)
(***************************************************************************)
\* the short names the handler replaces and the table names it replaces them
\* with
SourceAliases == <<
    [short |-> "SAT/CBL",  name |-> "CBL/SAT"],
    [short |-> "BD",       name |-> "BLU-RAY"],
    [short |-> "MPLAY",    name |-> "MEDIA PLAYER"],
    [short |-> "USB/IPOD", name |-> "IPOD/USB"],
    [short |-> "TV",       name |-> "TV AUDIO"],
    [short |-> "NET",      name |-> "NETWORK"],
    [short |-> "BT",       name |-> "BLUETOOTH"],
    [short |-> "SPOTIFY",  name |-> "SPOTIFYCONNECT"] >>

\* the names of the tables of the receiver: every known source and the tuner
SourceNames == [i \in 1..Len(KnownSources) |-> KnownSources[i].name] \o <<"TUNER">>

\* rawData with the tables over SourceNames, every source with this use flag
WithSources(value, use) ==
    [value EXCEPT
       !.GetRenameSource = [i \in 1..Len(SourceNames) |-> [name |-> SourceNames[i], rename |-> SourceNames[i]]],
       !.GetDeletedSource = [i \in 1..Len(SourceNames) |-> [name |-> SourceNames[i], use |-> use]]]

SourceInit ==
    /\ InitReceiver
    /\ InitNet
    /\ \E use \in {"0", "1"} : rawData = WithSources(DescriptorValue(DeviceZones), use)
    /\ trackedDevices = FALSE
    /\ tel = NoRead
    /\ canonical = NoDevice
    /\ \E c0 \in {"SSFUN", "SSSOD"}, i \in 1..Len(SourceAliases), argument \in {"DEL", "USE", "Sat", "Movie Box"} :
          stream = c0 \o SourceAliases[i].short \o " " \o argument \o "\r"

SourceNext == ReadAll

SourceSpec == SourceInit /\ [][SourceNext]_vars

(***************************************************************************)
(* Canonical states: receivers of 2 and 3 zones with any of a few sources  *)
(* on each zone, the tuner on either band with or without a preset, the    *)
(* short or the full source tables, and one input or tuner telegram        *)
(***************************************************************************)
\* the sources of the zones of a receiver with n zones
ZoneSourceChoices(n) ==
    {f \in [1..n -> {"CD", "TV", "TUNER", "SOURCE", ""}] :
        /\ f[1] \in {"CD", "TUNER", "SOURCE", ""}
        /\ f[2] \in {"SOURCE", "", "TV", "TUNER"}
        /\ n >= 3 => f[3] \in {"SOURCE", "CD"}}

\* a preset table with an unused slot at its end
WithUnusedPreset(value) ==
    [value EXCEPT !.presets = Append(@, [table |-> "OFF", band |-> "FM", param |-> "", skip |-> "OFF"])]

\* tables with a source at their end that #processData does not know
WithUnknownSource(value) ==
    [value EXCEPT !.GetRenameSource = Append(@, [name |-> "PHONO", rename |-> "Phono"]),
                  !.GetDeletedSource = Append(@, [name |-> "PHONO", use |-> "1"])]

CanonicalTelegrams == {"SICD", "SITUNER", "SIPHONO", "TPAN02", "TPAN03", "TPANOFF", "TMANAM"}

CanonicalInit ==
    /\ InitReceiver
    /\ InitNet
    /\ \E n \in 2..MaxZones, presetno \in {"OFF", "01", "02"}, band \in {"FM", "AM"}, full \in BOOLEAN :
          \E sources \in ZoneSourceChoices(n) :
             rawData = [(IF full THEN WithUnknownSource(WithSources(WithUnusedPreset(DescriptorValue(n)), "1"))
                                 ELSE DescriptorValue(n))
                          EXCEPT !.GetAllZoneSource = [z \in 1..n |-> [source |-> sources[z]]],
                                 !.GetTunerStatus.presetno = presetno,
                                 !.GetTunerStatus.band = band]
    /\ trackedDevices = FALSE
    /\ tel = NoRead
    /\ canonical = NoDevice
    /\ \E telegram \in CanonicalTelegrams : stream = telegram \o "\r"

CanonicalNext == ReadAll

CanonicalSpec == CanonicalInit /\ [][CanonicalNext]_vars

(***************************************************************************)
(* Zone telegrams: receivers of 2 and 3 zones with any power on each zone  *)
(* and either mute state on zone 2, and one Z2 or Z3 telegram              *)
(***************************************************************************)
ZoneRemainders == {"ON", "OFF", "MUON", "MUOFF", "45", "455", "00", "", "CD", "TUNER", "SOURCE", "UP"}

ZoneInit ==
    /\ InitReceiver
    /\ InitNet
    /\ \E n \in 2..MaxZones, mute \in {"on", "off"} :
          \E power \in [1..n -> {"ON", "OFF"}] :
             rawData = [DescriptorValue(n) EXCEPT
                          !.GetAllZonePowerStatus = power,
                          !.GetAllZoneMuteStatus[2] = mute]
    /\ trackedDevices = FALSE
    /\ tel = NoRead
    /\ canonical = NoDevice
    /\ \E prefix \in {"Z2", "Z3"}, remainder \in ZoneRemainders : stream = prefix \o remainder \o "\r"

ZoneNext == ReadAll

ZoneSpec == ZoneInit /\ [][ZoneNext]_vars

(***************************************************************************)
(* Preset telegrams: a preset selected (TPAN) and then the details of a    *)
(* preset (OPTPN), of the same slot or of another, each in a read of its   *)
(* own                                                                     *)
(***************************************************************************)
PresetInit ==
    /\ InitReceiver
    /\ InitNet
    /\ \E presetno \in {"OFF", "01"}, unused \in BOOLEAN :
          rawData = [(IF unused THEN WithUnusedPreset(DescriptorValue(DeviceZones))
                                ELSE DescriptorValue(DeviceZones))
                       EXCEPT !.GetTunerStatus.presetno = presetno]
    /\ trackedDevices = FALSE
    /\ tel = NoRead
    /\ canonical = NoDevice
    /\ \E selected \in {"01", "02", "03", "OFF"}, slot \in {"01", "02", "03"},
          name \in {"Radio 4  ", "         ", "Jazz FM  "}, frequency \in {"009830", "008800", "010500"} :
          stream = "TPAN" \o selected \o "\r" \o "OPTPN" \o slot \o name \o frequency \o "\r"

\* the next telegram of the stream arrives in a read of its own
ReadTelegram == \E k \in 1..Len(stream) : IndexOf(stream, "\r") = k /\ Read(k)

PresetNext == ReadTelegram

PresetSpec == PresetInit /\ [][PresetNext]_vars

(***************************************************************************)
(* Runs of volume telegrams: three telegrams for zone 1 and zone 2 in any  *)
(* order, with codes that are zero, inside the range, at its upper end and *)
(* above it, each in a read of its own                                     *)
(***************************************************************************)
VolumeTelegrams == {"MV0", "MV5", "MV455", "MV975", "MV985", "MV999", "Z2000", "Z2455", "Z298"}

VolumeRunInit ==
    /\ InitReceiver
    /\ InitNet
    /\ rawData = DescriptorValue(DeviceZones)
    /\ trackedDevices = FALSE
    /\ tel = NoRead
    /\ canonical = NoDevice
    /\ \E first \in VolumeTelegrams, second \in VolumeTelegrams, third \in VolumeTelegrams :
          stream = first \o "\r" \o second \o "\r" \o third \o "\r"

VolumeRunNext == ReadTelegram

VolumeRunSpec == VolumeRunInit /\ [][VolumeRunNext]_vars

(***************************************************************************)
(* Two connected receivers: the serial numbers of their descriptors, the   *)
(* serial numbers the configuration excludes, and datalines that arrive on *)
(* either socket in any order, among them the serial number the receiver   *)
(* reports for itself                                                      *)
(***************************************************************************)
SerialNumbers == {"SN1", "SN2", "SN3"}

PlatformLines == {"ZMON", "MV455", "PWON", "SSSODCD DEL", "VIALLS/N.SN1", "VIALLS/N.SN3"}

\* the record of a connected receiver
ConnectedRecord(macAddress, system, serialNumber) ==
    [present |-> TRUE,
     system |-> system,
     value |-> [DescriptorValue(DeviceZones) EXCEPT !.sdp.serialNumber = serialNumber,
                                                    !.deviceInfo.MacAddress = macAddress],
     tcpSocket |-> "open"]

PlatformInit ==
    /\ InitReceiver
    /\ rawData = DescriptorValue(DeviceZones)
    /\ stream = ""
    /\ canonical = NoDevice
    /\ conn = NoConn
    /\ fw = NoFetch
    /\ trackedDevices = {}
    /\ tel = NoData
    /\ \E exclude \in SUBSET SerialNumbers :
          discovery = [NoDiscovery EXCEPT
                         !.exclude = exclude,
                         !.rawData = [macAddress \in Registered |->
                                         IF macAddress = RegisteredOrder[1]
                                           THEN ConnectedRecord(macAddress, "192.168.1.10", "SN1")
                                           ELSE ConnectedRecord(macAddress, "192.168.1.11", "SN2")]]

PlatformNext == \E macAddress \in Registered, dataline \in PlatformLines : Data(macAddress, dataline)

PlatformSpec == PlatformInit /\ [][PlatformNext]_vars

(***************************************************************************)
(* Shutdown against the discovery window: with autoDiscover on, the        *)
(* platform has just been launched and its first discovery window is open; *)
(* with autoDiscover off, discoverDevices awaits nothing and a check is one *)
(* step. Windows, checks, socket events and the shutdown event in any order *)
(***************************************************************************)
ShutdownInit ==
    /\ InitReceiver
    /\ InitTelnet
    /\ fw = NoFetch
    /\ \E autoDiscover \in BOOLEAN :
          /\ discovery = [NoDiscovery EXCEPT !.autoDiscover = autoDiscover]
          /\ conn = IF autoDiscover
                      THEN [NoConn EXCEPT !.connectionTimer = FALSE, !.window = "launch"]
                      ELSE NoConn

ShutdownNext ==
    \/ DiscoveryStart
    \/ DiscoveryDone
    \/ (~discovery.autoDiscover /\ ConnectionCheck)
    \/ \E macAddress \in Registered : SocketConnect(macAddress)
    \/ \E macAddress \in Registered : SocketEnd(macAddress)
    \/ \E macAddress \in Registered : SocketClose(macAddress)
    \/ Shutdown

ShutdownSpec == ShutdownInit /\ [][ShutdownNext]_vars

(***************************************************************************)
(* The intents: a receiver with every known source, both bands and two     *)
(* presets, speakers active or not as the last update left them, the input *)
(* services built with or without the presets, and one intent of any kind  *)
(***************************************************************************)
\* this.deviceData.inputs
IntentInputs == DeviceInputList(WithSources(DescriptorValue(DeviceZones), "1"))

IntentInit ==
    /\ InitTelnet
    /\ InitNet
    /\ deviceData = [zones |-> [z \in Zones |-> InitialZone],
                     inputs |-> IntentInputs]
    /\ cachedOptions = << >>
    /\ exposed = [zones |-> [z \in Zones |-> InitialZone]]
    /\ commands = << >>
    /\ ov = [op |-> "init", set |-> NoSet, pass |-> NoPass]
    /\ \E active \in [Zones -> BOOLEAN] : services = [NoServices EXCEPT !.speakerActive = active]

BuildInputs ==
    /\ ov.op = "init"
    /\ \E includePresets \in BOOLEAN : buildInputs(includePresets)
    /\ UNCHANGED <<telVars, netVars>>

Intended == ov.op \notin {"init", "build"}

SetInputName ==
    /\ ~Intended
    /\ \E service \in 1..Len(services.AMPInputs), value \in {"", "Movies", "Late Night Radio"} :
          setInputName(service, value)
    /\ UNCHANGED <<telVars, netVars>>

SetInputVisability ==
    /\ ~Intended
    /\ \E service \in 1..Len(services.AMPInputs), value \in {"HIDDEN", "SHOWN", "OTHER"} :
          setInputVisability(service, value)
    /\ UNCHANGED <<telVars, netVars>>

SetVolume ==
    /\ ~Intended
    /\ \E zone \in Zones, value \in {"INCREMENT", "DECREMENT"} : setZoneVolume(zone, value)
    /\ UNCHANGED <<telVars, netVars>>

SetMute ==
    /\ ~Intended
    /\ \E zone \in Zones, value \in BOOLEAN : setZoneMute(zone, value)
    /\ UNCHANGED <<telVars, netVars>>

IntentNext ==
    \/ BuildInputs
    \/ SetInputName
    \/ SetInputVisability
    \/ SetVolume
    \/ SetMute
    \/ (~Intended /\ SetPower)
    \/ (~Intended /\ SetInput)

IntentSpec == IntentInit /\ [][IntentNext]_vars

(***************************************************************************)
(* The sockets: connection checks, socket events and set intents in any    *)
(* order                                                                   *)
(***************************************************************************)
ConnNext ==
    \/ ConnectionCheck
    \/ \E macAddress \in Registered : SocketConnect(macAddress)
    \/ \E macAddress \in Registered, code \in {"ECONNREFUSED", "ETIMEDOUT", "ECONNRESET"} :
          SocketError(macAddress, code)
    \/ \E macAddress \in Registered : SocketEnd(macAddress)
    \/ \E macAddress \in Registered : SocketClose(macAddress)
    \/ \E uuid \in Registered \cup {Undefined}, command \in SetCommands : SetIntent(uuid, command)
    \/ Shutdown

ConnSpec == Init /\ [][ConnNext]_vars

(***************************************************************************)
(* Discovery: replies to the search or rounds over the configured devices, *)
(* descriptor fetches that resolve in any order and with any outcome, and  *)
(* the sockets made in between                                             *)
(***************************************************************************)
DiscoveryInit ==
    /\ InitReceiver
    /\ InitTelnet
    /\ conn = NoConn
    /\ fw = NoFetch
    /\ \E autoDiscover \in BOOLEAN : discovery = [NoDiscovery EXCEPT !.autoDiscover = autoDiscover]

DiscoveryNext ==
    \/ \E address \in Addresses : Message(address)
    \/ StaticRound
    \/ \E address \in Addresses, deviceInfo \in DeviceInfos : Resume(address, deviceInfo)
    \/ Subscribe

DiscoverySpec == DiscoveryInit /\ [][DiscoveryNext]_vars

(***************************************************************************)
(* The fallback HTTP call: a server that answers the successive requests   *)
(* with any statuses, on either kind of runtime, and one call with any     *)
(* method and retry count                                                  *)
(***************************************************************************)
\* the largest retry count configured
MaxRetry == 3

Statuses == {200, 404, 503}

Methods == {"get", "post", "put"}

FetchInit ==
    /\ InitReceiver
    /\ InitTelnet
    /\ conn = NoConn
    /\ discovery = NoDiscovery
    /\ \E server \in [1..MaxRetry -> Statuses], cloneable \in BOOLEAN :
          fw = [NoFetch EXCEPT !.server = server, !.cloneable = cloneable]

\* one call; options.retry is 1 when the caller gives none
Call(method, given, retry) ==
    /\ fw.result.outcome = "none"
    /\ fw' = [fw EXCEPT !.method = method, !.given = given, !.configured = IF given THEN retry ELSE 1,
                         !.result = fetchWrapper(method, IF given THEN retry ELSE 1, fw.server, 0,
                                                 fw.cloneable)]
    /\ UNCHANGED <<ovVars, telVars, conn, discovery>>

FetchNext == \E method \in Methods, given \in BOOLEAN, retry \in 0..MaxRetry : Call(method, given, retry)

FetchSpec == FetchInit /\ [][FetchNext]_vars

(***************************************************************************)
(* Properties of the override cache                                        *)
(***************************************************************************)
Pending == HasOverride(cachedOptions, "zones")

C2_ConfirmDropsOverride ==
    [][(/\ ov'.op = "update"
        /\ Pending
        /\ ov'.pass.reported = cachedOptions["zones"])
       => (/\ ~HasOverride(cachedOptions', "zones")
           /\ exposed'.zones = ov'.pass.reported
           /\ exposed'.zones = cachedOptions["zones"])]_vars

C2_Witness ==
    /\ ov.op = "update"
    /\ ov.pass.pending
    /\ ov.pass.kind = "confirm"
    /\ ~Pending
    /\ exposed.zones[1].power
    /\ deviceData.zones[1].power

\* C3: while an override is pending, a canonical update that reports a value
\* different from both the pre-set value and the override value drops the
\* override in that pass and the exposed value is the new canonical value.
C3_ThirdValueDropsOverride ==
    [][(/\ ov'.op = "update"
        /\ Pending
        /\ ov'.pass.reported # deviceData.zones
        /\ ov'.pass.reported # cachedOptions["zones"])
       => (/\ ~HasOverride(cachedOptions', "zones")
           /\ exposed'.zones = ov'.pass.reported)]_vars

C3_Witness ==
    /\ ov.op = "update"
    /\ ov.pass.pending
    /\ ov.pass.fkind = "third"
    /\ ~Pending
    /\ exposed.zones[1].input = "TUNERFM"

\* C4: an override entry is created by a set() only; a canonical update that
\* reports another value than the accessory holds removes it and exposes the
\* canonical state, as does every update while nothing is cached; so when the
\* receiver goes on reporting changes a pending override is eventually removed.
C4_Convergence ==
    /\ [][(~Pending /\ HasOverride(cachedOptions', "zones")) => ov'.op = "set"]_vars
    /\ [][(ov'.op = "update" /\ ov'.pass.reported # deviceData.zones)
          => (~HasOverride(cachedOptions', "zones") /\ exposed'.zones = ov'.pass.reported)]_vars
    /\ [][(ov'.op = "update" /\ ~Pending) => exposed'.zones = ov'.pass.reported]_vars
    /\ (Pending ~> ~Pending)

C4_Witness ==
    /\ ov.op = "update"
    /\ ov.pass.pending
    /\ ov.pass.kind \in {"confirm", "other"}
    /\ ~Pending
    /\ exposed.zones = deviceData.zones

\* C5: while an override is pending on one attribute and that attribute still
\* reports its pre-set value, a canonical update that changes a different
\* attribute leaves the override in place and the overridden attribute exposed
\* with the locally set value.
C5_PerFieldIndependence ==
    [][(/\ ov'.op = "update"
        /\ Pending
        /\ ov.set.field # ""
        /\ FieldOf(ov'.pass.reported, ov.set) = FieldOf(deviceData.zones, ov.set)
        /\ ov'.pass.reported # deviceData.zones)
       => (/\ HasOverride(cachedOptions', "zones")
           /\ FieldOf(exposed'.zones, ov.set) = FieldOf(cachedOptions["zones"], ov.set))]_vars

(***************************************************************************)
(* Properties of the telegram decoder                                      *)
(***************************************************************************)
\* the line starts with an entry of the command-prefix table
Recognized(line) == \E i \in 1..Len(DENON_COMMANDS) : StartsWith(line, DENON_COMMANDS[i])

RECURSIVE LinesOf(_)
LinesOf(entries) ==
    IF Len(entries) = 0 THEN << >> ELSE <<Head(entries).line>> \o LinesOf(Tail(entries))

\* the datalines the last read decoded, and those followed by a notification
IsMatched(e) == e.matched

IsNotified(e) == e.notified

DecodedLines == LinesOf(SelectSeq(tel.trace, IsMatched))

NotifiedLines == LinesOf(SelectSeq(tel.trace, IsNotified))

\* the recognized telegram lines whose terminator arrived in the last read
CompletedLines == SelectSeq(tel.assembled, Recognized)

\* C6: a read that ends in the middle of a telegram line decodes nothing of
\* the partial line, and a line is decoded once, as a whole, in the read that
\* brings its terminator: the lines a read decodes are exactly the recognized
\* lines that read completes (reads in which the handler raised set aside).
C6_PartialLineNotDecoded == ~tel.threw => DecodedLines = CompletedLines

\* C7: a read that holds k complete recognized telegram lines, and nothing
\* else, decodes the k lines in order and emits one update notification after
\* each of them.
C7_EveryLineNotified == tel.aligned => NotifiedLines = CompletedLines

IsWhiteSpaceOnly(s) == \A i \in 1..Len(s) : IsWhiteSpace(CharAt(s, i))

\* the prefix chosen for the dataline of e is an entry of the table the line
\* starts with, and no entry the line starts with is longer
LongestPrefixSelected(e) ==
    /\ e.c0 \in Range(DENON_COMMANDS)
    /\ StartsWith(e.line, e.c0)
    /\ \A p \in Range(DENON_COMMANDS) : StartsWith(e.line, p) => Len(p) <= Len(e.c0)

\* the remainder of e is the text after the prefix less the white space
\* around it
TrimmedRemainder(e) ==
    \E a, b \in 0..Len(e.line) :
        /\ Len(e.c0) + a + Len(e.c1) + b = Len(e.line)
        /\ SubSeq(e.line, Len(e.c0) + a + 1, Len(e.c0) + a + Len(e.c1)) = e.c1
        /\ IsWhiteSpaceOnly(SubSeq(e.line, Len(e.c0) + 1, Len(e.c0) + a))
        /\ IsWhiteSpaceOnly(SubSeq(e.line, Len(e.line) - b + 1, Len(e.line)))
        /\ e.c1 # "" => /\ ~IsWhiteSpace(CharAt(e.c1, 1))
                        /\ ~IsWhiteSpace(CharAt(e.c1, Len(e.c1)))

\* C8 (as stated): for every line the decoder takes, the prefix is the longest
\* table entry the line starts with and the remainder is the line with exactly
\* that prefix removed.
C8_ExactPrefixRemoved ==
    \A i \in 1..Len(tel.trace) :
        LET e == tel.trace[i]
        IN  e.matched => LongestPrefixSelected(e) /\ e.line = e.c0 \o e.c1

\* C8 (amended): every line that starts with a table entry is taken, the
\* prefix is the longest table entry the line starts with, and the remainder
\* is the text after that prefix with the white space around it removed.
C8_LongestPrefixTrimmedRemainder ==
    \A i \in 1..Len(tel.trace) :
        LET e == tel.trace[i]
        IN  /\ Recognized(e.line) => e.matched
            /\ e.matched => LongestPrefixSelected(e) /\ TrimmedRemainder(e)

\* a station-name line with padding was decoded: TFANNAME chosen over TFAN
C8_Witness ==
    \E i \in 1..Len(tel.trace) :
        /\ tel.trace[i].line = "TFANNAMEBBC R2  "
        /\ tel.trace[i].c0 = "TFANNAME"
        /\ tel.trace[i].c1 = "BBC R2"

\* C9: a line that starts with no known command prefix is ignored without
\* error: nothing is decoded from it, it changes no raw state, raises nothing
\* and no update notification follows it; a read made of such lines only
\* leaves the raw state and the tracked devices as they were.
C9_UnrecognizedIgnored ==
    [][/\ \A i \in 1..Len(tel'.trace) :
              LET e == tel'.trace[i]
              IN  ~Recognized(e.line) => ~e.matched /\ ~e.changed /\ ~e.threw /\ ~e.notified
       /\ (/\ Len(stream') < Len(stream)
           /\ \A i \in 1..Len(tel'.trace) : ~Recognized(tel'.trace[i].line))
          => rawData' = rawData /\ trackedDevices' = trackedDevices]_vars

\* an unknown line was read between two known ones, which were both decoded
C9_Witness ==
    /\ Len(tel.trace) = 2
    /\ tel.trace[1].line = "PWON" /\ ~tel.trace[1].matched
    /\ tel.trace[2].line = "ZMON" /\ tel.trace[2].notified
    /\ rawData.GetAllZonePowerStatus[1] = "ON"

(***************************************************************************)
(* Properties of the volume scale                                          *)
(***************************************************************************)
Abs(x) == IF x < 0 THEN 0 - x ELSE x

\* tempZone.volume of #processData, counted in half steps
tempZoneVolume(value, zone) == VolumeHalfSteps(value.GetAllZoneVolume[zone].volume)

\* halfSteps / 2 is a point of the 0.5 grid nearest to the linear map of
\* tenths / 10 from [-79.5, 18] onto [0, 98]
NearestHalfStep(halfSteps, tenths) ==
    LET span == VolumeMax - VolumeMin
    IN  2 * Abs(span * (halfSteps - 2 * StepMin) - 2 * (StepMax - StepMin) * (tenths - VolumeMin)) <= span

\* the last dataline of the last read is a volume telegram with a numeric
\* code other than 0
VolumeTelegramDecoded ==
    /\ Len(tel.trace) > 0
    /\ LET e == tel.trace[Len(tel.trace)]
       IN  /\ e.matched /\ ~e.threw
           /\ e.c0 \in {"MV", "Z2"}
           /\ e.c1 # "" /\ IsDigits(e.c1) /\ DigitsValue(e.c1) # 0

\* the stored raw volume is the number tenths / 10 written with one decimal
StoredAs(volume, tenths) ==
    /\ Len(volume) >= 3
    /\ CharAt(volume, Len(volume) - 1) = "."
    /\ ParseFloat(volume) = tenths

\* the code c of the claim: a code shorter than three digits counts whole
\* steps, that is, it is right-padded with 0
PaddedCode(code) ==
    IF Len(code) = 1 THEN 100 * DigitsValue(code)
    ELSE IF Len(code) = 2 THEN 10 * DigitsValue(code)
    ELSE DigitsValue(code)

\* C10 (as stated): a volume telegram with numeric code c other than 0 stores
\* the raw volume -79.5 + c/10 with one decimal, a 2-digit code counting whole
\* steps, and the normalized step is the linear map of that value from
\* [-79.5, 18] onto [0, 98] rounded to the 0.5 grid.
C10_LinearMapOfCode ==
    VolumeTelegramDecoded =>
        LET e == tel.trace[Len(tel.trace)]
            zone == ZoneOfPrefix(e.c0)
            tenths == VolumeMin + PaddedCode(e.c1)
        IN  /\ StoredAs(rawData.GetAllZoneVolume[zone].volume, tenths)
            /\ NearestHalfStep(tempZoneVolume(rawData, zone), tenths)

\* C10 (amended): the stored raw volume is -79.5 + c/10 with one decimal, and
\* the normalized step is the linear map from [-79.5, 18] onto [0, 98] of
\* that value clamped to [-79.5, 18], rounded to the 0.5 grid; code 455 gives
\* -34.0 and 45.5.
C10_ClampedMapOfPaddedCode ==
    VolumeTelegramDecoded =>
        LET e == tel.trace[Len(tel.trace)]
            zone == ZoneOfPrefix(e.c0)
            tenths == VolumeMin + PaddedCode(e.c1)
            stored == rawData.GetAllZoneVolume[zone].volume
            halfSteps == tempZoneVolume(rawData, zone)
        IN  /\ StoredAs(stored, tenths)
            /\ NearestHalfStep(halfSteps, Max(VolumeMin, Min(VolumeMax, tenths)))
            /\ e.c1 = "455" => stored = "-34.0" /\ halfSteps = 91

\* MV455 was decoded: raw -34.0, normalized 45.5
C10_Witness ==
    /\ VolumeTelegramDecoded
    /\ tel.trace[1].line = "MV455"
    /\ rawData.GetAllZoneVolume[1].volume = "-34.0"
    /\ tempZoneVolume(rawData, 1) = 91
    /\ rawData.GetAllZoneVolume[1].dispvalue = "45.5"

(***************************************************************************)
(* Properties of the canonical state                                       *)
(***************************************************************************)
Emitted == canonical # NoDevice

\* the raw volume of a zone in tenths of a dB
RawTenths(zone) == ParseFloat(rawData.GetAllZoneVolume[zone].volume)

\* the normalized volume of a zone mapped back by the linear scale, in tenths
\* of a dB, as the fraction num / den
Denormalized(zone) ==
    scaleValue(canonical.zones[zone].volume, 2 * StepMin, 2 * StepMax, VolumeMin, VolumeMax)

\* twice the distance between the raw volume and the de-normalized volume of a
\* zone, in units of 1 / den tenths
RoundTripError(zone) == 2 * Abs(Denormalized(zone).num - RawTenths(zone) * Denormalized(zone).den)

\* C11 as stated: the raw volume of zone 1, normalized to steps and mapped
\* back by the same linear scale, is the raw volume again once rounded to one
\* decimal (the distance is at most 0.05 dB).
C11_RoundTripToOneDecimal ==
    Emitted => RoundTripError(1) <= Denormalized(1).den

\* C11: the normalized volume lies on the grid of half steps, and the raw
\* volume of zone 1, normalized and mapped back by the same linear scale, is
\* within 0.25 dB of the raw volume.
C11_RoundTripWithinQuarterStep ==
    Emitted =>
        /\ canonical.zones[1].volume \in (2 * StepMin)..(2 * StepMax)
        /\ RoundTripError(1) <= 5 * Denormalized(1).den

C11_Witness ==
    /\ Emitted
    /\ rawData.GetAllZoneVolume[1].volume = "-79.4"
    /\ canonical.zones[1].volume = 0
    /\ RoundTripError(1) > Denormalized(1).den

\* a display-mode telegram is the line the step reads
DisplayTelegramRead ==
    /\ Len(tel'.trace) = 1
    /\ tel'.trace[1].c0 = "SSVCTZMADIS"
    /\ tel'.trace[1].c1 \in {"ABS", "REL"}

\* C12 as stated: a step that processes a display-mode telegram raises no
\* exception, leaves the raw volume of every zone of the receiver as it was
\* and gives every zone the display mode of the telegram and the display
\* value derived from its own raw volume, for receivers of 1, 2 and 3 zones.
C12_DisplayModeEveryZone ==
    [][DisplayTelegramRead =>
          /\ ~tel'.threw
          /\ \A zone \in 1..rawData.deviceInfo.DeviceZones :
                rawData'.GetAllZoneVolume[zone] =
                    Rendered(rawData.GetAllZoneVolume[zone].volume,
                             IF tel'.trace[1].c1 = "ABS" THEN "ABSOLUTE" ELSE "RELATIVE")]_vars

\* the step reads one source telegram with this prefix
SourceTelegramRead(c0) ==
    /\ Len(tel'.trace) = 1
    /\ tel'.trace[1].c0 = c0

\* the table name of the source a source telegram names by its short name
NamedSource(c1) ==
    LET found == {i \in 1..Len(SourceAliases) : SourceAliases[i].short = BeforeSpace(c1)}
    IN  IF found = {} THEN BeforeSpace(c1) ELSE SourceAliases[CHOOSE i \in found : TRUE].name

\* command[1].split(/ (.*)/s)[1]: the text after the first space
AfterSpace(c1) == SubSeq(c1, IndexOf(c1, " ") + 1, Len(c1))

\* the step leaves c1's label on the table entry the telegram names
RenameApplied(c1) ==
    \A i \in 1..Len(rawData'.GetRenameSource) :
        (rawData'.GetRenameSource[i].name = NamedSource(c1))
            => (rawData'.GetRenameSource[i].rename = AfterSpace(c1))

\* the step leaves c1's use flag on the table entry the telegram names
HideApplied(c1) ==
    \A i \in 1..Len(rawData'.GetDeletedSource) :
        (rawData'.GetDeletedSource[i].name = NamedSource(c1))
            => (rawData'.GetDeletedSource[i].use = (IF AfterSpace(c1) = "DEL" THEN "0" ELSE "1"))

\* C13 as stated: a step that reads a rename telegram (SSFUN) naming a
\* source by its documented short name raises nothing and sets the rename
\* label of the table entry with the canonical name; a step that reads a hide
\* telegram (SSSOD) raises nothing and sets the use flag of that entry, 0
\* (hidden) for DEL and 1 otherwise.
C13_AliasRenameAndHide ==
    [][/\ SourceTelegramRead("SSFUN") => (~tel'.threw /\ RenameApplied(tel'.trace[1].c1))
       /\ SourceTelegramRead("SSSOD") => (~tel'.threw /\ HideApplied(tel'.trace[1].c1))]_vars

\* the canonical state is the one of the raw state
Current == Emitted /\ ~tel.threw /\ stream = ""

\* the source of a zone is empty or the follow-main sentinel
FollowsMain(zone) == rawData.GetAllZoneSource[zone].source \in {"", "SOURCE"}

\* active input, secondary source and label of a zone
Resolution(zone) ==
    [input |-> canonical.zones[zone].input,
     source |-> canonical.zones[zone].source,
     label |-> canonical.zones[zone].label]

\* C14: in every canonical state a zone with index 2 or higher whose source
\* is empty or SOURCE has the active input, the secondary source and the
\* label of zone 1, and zone 1 with such a source takes no input of another
\* zone: it has no active input.
C14_SecondaryZoneFollowsMain ==
    Current =>
        /\ \A zone \in 2..Len(canonical.zones) : FollowsMain(zone) => Resolution(zone) = Resolution(1)
        /\ FollowsMain(1) => Resolution(1) = [input |-> "", source |-> "", label |-> ""]

\* zone 2 follows a main zone that is on a preset of the tuner
C14_Witness ==
    /\ Current
    /\ FollowsMain(2)
    /\ Resolution(2) = [input |-> "TUNERAM", source |-> "PRESET02", label |-> "BBC"]

\* the raw source of a zone is the tuner
OnTuner(zone) == ToUpperCase(rawData.GetAllZoneSource[zone].source) = "TUNER"

\* the band of the tuner is a band of the receiver
BandListed ==
    \E i \in 1..Len(rawData.deviceInfo.Band) :
        ToUpperCase(rawData.deviceInfo.Band[i]) = ToUpperCase(rawData.GetTunerStatus.band)

\* the selected preset is a slot of the preset table
PresetListed == PresetIndex(rawData.presets, rawData.GetTunerStatus.presetno) # 0

TunerKey == "TUNER" \o ToUpperCase(rawData.GetTunerStatus.band)

InputKeys == {canonical.inputs[i].uri : i \in 1..Len(canonical.inputs)}

\* C16: in every canonical state the keys of the input list are pairwise
\* distinct, across the inputs of the rename table, of the tuner bands and of
\* the presets.
C16_InputKeysDistinct ==
    Emitted =>
        \A i, j \in 1..Len(canonical.inputs) :
            i # j => canonical.inputs[i].uri # canonical.inputs[j].uri

\* every known source, both bands and both presets are inputs
C16_Witness ==
    /\ Emitted
    /\ Len(canonical.inputs) = Len(KnownSources) + 4
    /\ {"SAT/CBL", "TUNERFM", "TUNERAM", "PRESET01", "PRESET02"} \subseteq InputKeys

\* the rows of the rename table whose vendor name is known and not the tuner
ListedSources ==
    {i \in 1..Len(rawData.GetRenameSource) :
        \E k \in 1..Len(KnownSources) :
            KnownSources[k].name = ToUpperCase(Trim(rawData.GetRenameSource[i].name))}

\* the rows of the preset table whose slot is not OFF
UsedPresets == {i \in 1..Len(rawData.presets) : rawData.presets[i].table # "OFF"}

\* the stored name of a preset: the first eight characters of its parameter
StoredName(preset) == Trim(Substring(preset.param, 0, 8))

\* the entries of the canonical input list with a key
EntriesOf(uri) == {i \in 1..Len(canonical.inputs) : canonical.inputs[i].uri = uri}

\* C30: the input list of a canonical state holds one entry per row of the
\* rename table whose vendor name is known and not the tuner, titled with that
\* name, one entry TUNER<band> per band of the tuner and one entry
\* PRESET<slot> per preset whose slot is not OFF, labelled with the stored
\* name of the preset or with Preset<slot> when that name is blank, and
\* nothing else.
C30_InputListContents ==
    Emitted =>
        /\ Len(canonical.inputs) =
              Cardinality(ListedSources) + Len(rawData.deviceInfo.Band) + Cardinality(UsedPresets)
        /\ \A i \in ListedSources :
              \E e \in 1..Len(canonical.inputs) :
                  /\ canonical.inputs[e].title = Trim(rawData.GetRenameSource[i].name)
                  /\ canonical.inputs[e].label = Trim(rawData.GetRenameSource[i].rename)
        /\ \A b \in 1..Len(rawData.deviceInfo.Band) :
              Cardinality(EntriesOf("TUNER" \o ToUpperCase(rawData.deviceInfo.Band[b]))) = 1
        /\ \A p \in UsedPresets :
              /\ Cardinality(EntriesOf("PRESET" \o rawData.presets[p].table)) = 1
              /\ \A e \in EntriesOf("PRESET" \o rawData.presets[p].table) :
                    canonical.inputs[e].label =
                        IF StoredName(rawData.presets[p]) = ""
                          THEN "Preset" \o rawData.presets[p].table
                          ELSE StoredName(rawData.presets[p])
        /\ EntriesOf("TUNER") = {} /\ EntriesOf("PRESETOFF") = {} /\ EntriesOf("") = {}

\* the tables list an unknown source and the tuner, the preset table has an
\* unused slot and a slot with a blank name
C30_Witness ==
    /\ Emitted
    /\ \E i \in 1..Len(rawData.GetRenameSource) : rawData.GetRenameSource[i].name = "PHONO"
    /\ \E i \in 1..Len(rawData.presets) : rawData.presets[i].table = "OFF"
    /\ \E e \in EntriesOf("PRESET02") : canonical.inputs[e].label = "Preset02"
    /\ Len(canonical.inputs) = Len(KnownSources) + 4

(***************************************************************************)
(* Properties of the sockets and of #set                                   *)
(***************************************************************************)
\* the last step was a set intent on a registered receiver
SetOnRegistered == conn.op.name = "set" /\ conn.op.uuid \in Registered

\* C17 as stated: after a set intent on a registered receiver whose socket
\* is absent or not open, exactly one HTTP GET has been sent and nothing was
\* written to a socket; after one on a receiver whose socket is open, the
\* command was written as one line ending in a carriage return and no HTTP
\* request was made.
C17_TransportSelection ==
    SetOnRegistered =>
        IF conn.tcpSocket[conn.op.uuid] = "open"
          THEN conn.written = <<conn.op.command \o "\r">> /\ conn.requests = << >>
          ELSE Len(conn.requests) = 1 /\ conn.written = << >> /\ ~conn.threw

\* a connection check is the step taken
CheckStep == conn'.op.name = "cycle" /\ conn'.tick # conn.tick

\* C18: a connection check creates a socket for every registered receiver
\* whose slot is empty, whatever the errors its earlier sockets met, and
\* leaves the other slots as they are.
C18_EveryEmptySlotReconnected ==
    [][CheckStep =>
          \A macAddress \in Registered :
              IF conn.tcpSocket[macAddress] = "undefined"
                THEN conn'.tcpSocket[macAddress] = "opening" /\ macAddress \in conn'.created
                ELSE conn'.tcpSocket[macAddress] = conn.tcpSocket[macAddress]]_vars

\* the second check has made new sockets for both receivers, whose first
\* sockets have closed
C18_Witness ==
    /\ conn.op.name = "cycle"
    /\ conn.created = Registered
    /\ ~conn.tick

\* the last step was a set intent
SetHandled == conn.op.name = "set"

\* C21 as stated: handling a set intent raises nothing, whatever the state of
\* the socket of the receiver (open, connecting, closed, absent): the handler
\* ends without an exception or a rejected promise.
C21_SetNeverRaises == SetHandled => ~conn.threw

\* the shutdown event has been handled
ShutDown == ~conn.listening

\* C25 as stated: once the shutdown event has been handled no receiver has an
\* open socket in its record and the interval timer is not armed.
C25_ShutdownEndsSockets ==
    ShutDown =>
        /\ \A macAddress \in Registered : conn.tcpSocket[macAddress] # "open"
        /\ ~conn.connectionTimer

(***************************************************************************)
(* Properties of discovery                                                 *)
(***************************************************************************)
\* the step handles a reply
ReplyHandled == discovery'.op.name = "resume"

\* the step handles a reply that carries a MacAddress the registry holds
KnownReply ==
    /\ ReplyHandled
    /\ discovery'.op.macAddress # Undefined
    /\ discovery.rawData[discovery'.op.macAddress].present

\* the record of the reply has the address of the reply and is otherwise as
\* it was
AddressUpdated(macAddress) ==
    discovery'.rawData[macAddress] =
        [discovery.rawData[macAddress] EXCEPT !.system = discovery'.op.address]

\* C22 as stated: a discovery result that carries a MacAddress of the
\* registry sets the address of its record to the address just observed and
\* leaves the raw state and the socket of the record as they were, for a reply
\* to the search and for a configured device alike.
C22_KnownIdentifierUpdatesAddress ==
    [][KnownReply => AddressUpdated(discovery'.op.macAddress)]_vars

\* C23 as stated: a candidate that does not answer, or whose descriptor has
\* no MacAddress, is skipped: the registry is as it was and the handler has
\* raised nothing, for a reply to the search and for a configured device
\* alike.
C23_DiscoveryNeverRaises ==
    [][(ReplyHandled /\ discovery'.op.macAddress = Undefined) =>
          (~discovery'.threw /\ discovery'.rawData = discovery.rawData)]_vars

\* a record is still there, with the raw state and the socket it had
RecordKept(macAddress) ==
    discovery.rawData[macAddress].present =>
        /\ discovery'.rawData[macAddress].present
        /\ discovery'.rawData[macAddress].value = discovery.rawData[macAddress].value
        /\ discovery'.rawData[macAddress].tcpSocket = discovery.rawData[macAddress].tcpSocket

\* C24: however the replies in flight are interleaved, the replies that carry
\* one MacAddress make exactly one record for it, and the reply handled next
\* neither replaces nor removes a record: only its address may change.
C24_FirstResponderWins ==
    [][ReplyHandled =>
          \A macAddress \in Registered :
              /\ discovery'.created[macAddress] =
                     (IF discovery'.rawData[macAddress].present THEN 1 ELSE 0)
              /\ RecordKept(macAddress)]_vars

\* two replies with the same MacAddress have been handled, the second while
\* another handler was in flight, and the record has a socket by now
C24_Witness ==
    /\ discovery.op.name = "resume"
    /\ discovery.op.racing
    /\ discovery.op.macAddress # Undefined
    /\ discovery.replies[discovery.op.macAddress] = 2
    /\ discovery.created[discovery.op.macAddress] = 1
    /\ discovery.rawData[discovery.op.macAddress].tcpSocket = "opening"

(***************************************************************************)
(* Properties of fetchWrapper                                              *)
(***************************************************************************)
\* a call with a valid method and a retry count of at least 1 has ended
Called == fw.result.outcome # "none" /\ fw.method \in {"get", "post"} /\ fw.configured >= 1

\* the responses to the first n requests are all non-OK
AllFail(n) == \A i \in 1..n : ~IsOk(fw.server[i])

\* C19 as stated: when every attempt of a call with retry count n >= 1 gets
\* a non-OK response, the call raises an error to its caller; it does not
\* return the failed response.
C19_ExhaustedRetriesRaise ==
    (Called /\ AllFail(fw.configured)) => fw.result.outcome \in {"HTTPError", "DataCloneError"}

InputSelected == ov.op = "set" /\ ov.set.field = "input"

\* the key of the input selected last
SelectedKey == exposed.zones[ov.set.zone].input

\* the command that switches a zone to the tuner
SwitchToTuner(zone) == IF zone = 1 THEN "SITUNER" ELSE "Z" \o ToString(zone) \o "TUNER"

\* the band of a preset: the first word of the title of its input
BandOfPreset(uri) ==
    LET i == CHOOSE i \in 1..Len(DeviceInputs) : DeviceInputs[i].uri = uri
    IN  SubSeq(DeviceInputs[i].title, 1, IndexOf(DeviceInputs[i].title, " ") - 1)

\* C26: selecting a plain input emits exactly one command; selecting a band
\* of the tuner emits switch-to-tuner and then tune-to-band; selecting a preset
\* emits switch-to-tuner, tune-to-band and then select-preset-slot; no other
\* command is emitted, in no other order.
C26_InputCommandOrder ==
    InputSelected =>
        IF StartsWith(SelectedKey, "PRESET")
          THEN commands = <<SwitchToTuner(ov.set.zone),
                            "TMAN" \o BandOfPreset(SelectedKey),
                            "TPAN" \o SubSeq(SelectedKey, 7, Len(SelectedKey))>>
        ELSE IF StartsWith(SelectedKey, "TUNER")
          THEN commands = <<SwitchToTuner(ov.set.zone), "TMAN" \o SubSeq(SelectedKey, 6, Len(SelectedKey))>>
        ELSE Len(commands) = 1 /\ commands[1] = ZoneCommandPrefix(ov.set.zone, "SI") \o SelectedKey

\* a preset has been selected on zone 2
C26_Witness ==
    /\ InputSelected
    /\ ov.set.zone = 2
    /\ commands = <<"Z2TUNER", "TMANFM", "TPAN01">>

(***************************************************************************)
(* Properties of the input services and of the zone intents                *)
(***************************************************************************)
\* the reflected polynomial EDB88320
Polynomial == Word(60856, 33568)

ShiftRight1(a) == Word(a.hi \div 2, (a.hi % 2) * 32768 + (a.lo \div 2))

\* n steps of the bit-by-bit division
RECURSIVE BitSteps(_, _)
BitSteps(crc, n) ==
    IF n = 0 THEN crc
    ELSE CHOOSE r \in {BitSteps(next, n - 1) :
                          next \in {IF crc.lo % 2 = 1 THEN Xor32(ShiftRight1(crc), Polynomial)
                                                      ELSE ShiftRight1(crc)}} : TRUE

RECURSIVE ReferenceLoop(_, _, _)
ReferenceLoop(crc, bytes, index) ==
    IF index > Len(bytes) THEN crc
    ELSE CHOOSE r \in {ReferenceLoop(next, bytes, index + 1) :
                          next \in {BitSteps(Word(crc.hi, BitXor(crc.lo, Ord(CharAt(bytes, index)), 16)), 8)}} : TRUE

\* the standard CRC-32: register FFFFFFFF at the start, FFFFFFFF XORed at the end
ReferenceCrc32(bytes) == Xor32(ReferenceLoop(AllOnes, bytes, 1), AllOnes)

CheckInput == "123456789"

\* computed once: the standard CRC-32 of every input key and of the check input
ReferenceIdentifier ==
    [uri \in {IntentInputs[i].uri : i \in 1..Len(IntentInputs)} \cup {CheckInput} |-> ReferenceCrc32(uri)]

\* computed once: #crc32 of the check input
CheckIdentifier == crc32(CheckInput)

\* the inputs #buildInputs made a service for
ServedInputs ==
    IF services.AMPInputs = << >> THEN {}
    ELSE {i \in 1..Len(deviceData.inputs) :
             IsBuilt(deviceData.inputs[i], Len(services.AMPInputs) = Len(deviceData.inputs))}

IsUint32(word) == word.hi \in 0..65535 /\ word.lo \in 0..65535

\* C29: the identifier of every input service is the standard CRC-32 of the
\* key of its input (reflected polynomial EDB88320, initial value and final
\* XOR FFFFFFFF), an unsigned 32-bit integer, every served key has its
\* service, and the check input 123456789 hashes to CBF43926
C29_IdentifierIsCrc32 ==
    /\ \A s \in 1..Len(services.AMPInputs) :
          /\ IsUint32(services.AMPInputs[s].Identifier)
          /\ \E i \in ServedInputs :
                services.AMPInputs[s].Identifier = ReferenceIdentifier[deviceData.inputs[i].uri]
    /\ \A i \in ServedInputs :
          \E s \in 1..Len(services.AMPInputs) :
             services.AMPInputs[s].Identifier = ReferenceIdentifier[deviceData.inputs[i].uri]
    /\ CheckIdentifier = Word(52212, 14630)
    /\ ReferenceIdentifier[CheckInput] = CheckIdentifier

C29_Witness ==
    /\ Len(services.AMPInputs) = Len(deviceData.inputs)
    /\ Len(services.AMPInputs) > 16
    /\ \E s \in 1..Len(services.AMPInputs) :
          services.AMPInputs[s].Identifier = ReferenceIdentifier["PRESET02"]

\* the input a service stands for
InputOf(service) ==
    CHOOSE i \in 1..Len(deviceData.inputs) :
       ReferenceIdentifier[deviceData.inputs[i].uri] = service.Identifier

ZoneIntent ==
    \/ ov.op \in {"volume", "mute"}
    \/ ov.op = "set" /\ ov.set.field \in {"power", "input"}

\* the zone 1 prefix of the command of an intent
MainPrefix ==
    CASE ov.op = "volume" -> "MV"
      [] ov.op = "mute" -> "MU"
      [] ov.set.field = "power" -> "ZM"
      [] OTHER -> "SI"

\* C28: the command a power, input, volume or mute intent emits starts with
\* the prefix of its zone, ZM, SI, MV or MU for zone 1 and Z followed by the
\* zone number for the others, and every command emitted is a defined,
\* non-empty string
C28_ZoneCommands ==
    (ZoneIntent /\ commands # << >>) =>
       /\ \A i \in 1..Len(commands) : commands[i] # Undefined /\ commands[i] # ""
       /\ StartsWith(commands[1], IF ov.set.zone = 1 THEN MainPrefix ELSE "Z" \o ToString(ov.set.zone))

(***************************************************************************)
(* Properties of the zone telegrams                                        *)
(***************************************************************************)
\* the one line of the last read was a Z2 or Z3 telegram
ZoneTelegramRead == Len(tel.trace) = 1 /\ tel.trace[1].matched /\ tel.trace[1].c0 \in {"Z2", "Z3"}

\* a remainder that is a volume code
IsCode(c1) == c1 # "" /\ IsDigits(c1)

\* C31: a Z2 or Z3 telegram whose remainder is not numeric and is none of
\* ON, OFF, MUON and MUOFF sets the stored source of its zone to the
\* remainder
C31_ZoneInputFollows ==
    ZoneTelegramRead =>
       \A c1 \in {tel.trace[1].c1}, zone \in {ZoneOfPrefix(tel.trace[1].c0)} :
          (/\ ~IsDigits(c1)
           /\ c1 \notin {"ON", "OFF", "MUON", "MUOFF"}
           /\ zone \in DOMAIN rawData.GetAllZoneSource)
             => rawData.GetAllZoneSource[zone].source = c1

\* C32: a Z2 or Z3 telegram changes at most one attribute of its zone and
\* nothing else: ON or OFF the power only, MUON or MUOFF the mute only, a
\* numeric code the volume only, and any other remainder, the empty one
\* too, leaves the power, the mute and the volume of every zone as they were
C32_ZoneTelegramFrame ==
    [][ZoneTelegramRead' =>
         \A c1 \in {tel'.trace[1].c1}, zone \in {ZoneOfPrefix(tel'.trace[1].c0)} :
            /\ c1 \notin {"ON", "OFF"} =>
                  rawData'.GetAllZonePowerStatus = rawData.GetAllZonePowerStatus
            /\ c1 \notin {"MUON", "MUOFF"} =>
                  rawData'.GetAllZoneMuteStatus = rawData.GetAllZoneMuteStatus
            /\ ~IsCode(c1) =>
                  rawData'.GetAllZoneVolume = rawData.GetAllZoneVolume
            /\ \A z \in DOMAIN rawData.GetAllZonePowerStatus \ {zone} :
                  rawData'.GetAllZonePowerStatus[z] = rawData.GetAllZonePowerStatus[z]
            /\ \A z \in DOMAIN rawData.GetAllZoneMuteStatus \ {zone} :
                  rawData'.GetAllZoneMuteStatus[z] = rawData.GetAllZoneMuteStatus[z]
            /\ \A z \in DOMAIN rawData.GetAllZoneVolume \ {zone} :
                  rawData'.GetAllZoneVolume[z] = rawData.GetAllZoneVolume[z]
            /\ rawData'.GetZoneName = rawData.GetZoneName
            /\ rawData'.GetTunerStatus = rawData.GetTunerStatus
            /\ rawData'.presets = rawData.presets
            /\ rawData'.sdp = rawData.sdp]_vars

(***************************************************************************)
(* Properties of the preset telegrams                                      *)
(***************************************************************************)
\* the frequency a preset-detail telegram carries, as the tuner status shows it
ShownFrequency(digits) ==
    CASE digits = "009830" -> "98.30"
      [] digits = "008800" -> "88.00"
      [] digits = "010500" -> "105.00"

\* the one line of the read of this step is a telegram with this prefix
TelegramStep(c0) == Len(tel'.trace) = 1 /\ tel'.trace[1].matched /\ tel'.trace[1].c0 = c0 /\ stream' # stream

\* C33: a TPAN telegram sets the active preset number to its remainder and
\* blanks the active preset name; an OPTPN telegram for a slot rewrites the
\* preset name and the frequency of the tuner status only when the slot is
\* the active preset number, rewrites the entry of the slot in the preset
\* table when the table has it, and leaves every other entry as it was
C33_PresetTelegrams ==
    [][/\ TelegramStep("TPAN") =>
            /\ rawData'.GetTunerStatus.presetno = tel'.trace[1].c1
            /\ rawData'.GetTunerStatus.presetname = "          "
            /\ rawData'.presets = rawData.presets
       /\ TelegramStep("OPTPN") =>
            \A slot \in {SubSeq(tel'.trace[1].line, 6, 7)},
               name \in {SubSeq(tel'.trace[1].line, 8, 16)},
               digits \in {SubSeq(tel'.trace[1].line, 17, 22)} :
               /\ IF slot = rawData.GetTunerStatus.presetno
                    THEN /\ rawData'.GetTunerStatus.presetno = slot
                         /\ rawData'.GetTunerStatus.presetname = name \o " "
                         /\ rawData'.GetTunerStatus.frequency = ShownFrequency(digits)
                    ELSE rawData'.GetTunerStatus = rawData.GetTunerStatus
               /\ Len(rawData'.presets) = Len(rawData.presets)
               /\ \A i \in 1..Len(rawData.presets) :
                     IF rawData.presets[i].table = slot
                       THEN rawData'.presets[i] = [rawData.presets[i] EXCEPT !.param = name \o digits]
                       ELSE rawData'.presets[i] = rawData.presets[i]]_vars

\* preset 02 was selected and its details have arrived: the tuner status and
\* the second entry of the table carry them, the first entry is as it was
C33_Witness ==
    /\ Len(tel.trace) = 1
    /\ tel.trace[1].c0 = "OPTPN"
    /\ rawData.GetTunerStatus.presetno = "02"
    /\ rawData.GetTunerStatus.presetname = "Radio 4   "
    /\ rawData.GetTunerStatus.frequency = "98.30"
    /\ rawData.presets[2].param = "Radio 4  009830"
    /\ rawData.presets[1].param = "BBC R2   010500"

(***************************************************************************)
(* Properties of the normalized volume                                     *)
(***************************************************************************)
\* the normalized volume of a zone of the canonical state, in half steps
Normalized(zone) == canonical.zones[zone].volume

\* the volume code of the last telegram read, as a number
LastCode == DigitsValue(tel.trace[1].c1)

\* C34: in every canonical state the normalized volume of each zone is a
\* multiple of 0.5 between 0 and 98, whatever volume telegrams came before:
\* a code of 0 stores the sentinel -- , which normalizes to 0, and a raw
\* volume outside -79.5 .. 18 dB normalizes to the end of the range
C34_VolumeOnGrid ==
    Emitted =>
       /\ \A zone \in 1..Len(canonical.zones) :
             /\ Normalized(zone) \in (2 * StepMin)..(2 * StepMax)
             /\ rawData.GetAllZoneVolume[zone].volume = "--" => Normalized(zone) = 2 * StepMin
             /\ (rawData.GetAllZoneVolume[zone].volume # "--" /\ RawTenths(zone) > VolumeMax)
                   => Normalized(zone) = 2 * StepMax
             /\ (rawData.GetAllZoneVolume[zone].volume # "--" /\ RawTenths(zone) < VolumeMin)
                   => Normalized(zone) = 2 * StepMin
       /\ LastCode = 0 => rawData.GetAllZoneVolume[ZoneOfPrefix(tel.trace[1].c0)].volume = "--"

\* zone 2 holds the sentinel of an earlier telegram and the last telegram
\* took zone 1 above the range
C34_Witness ==
    /\ Emitted
    /\ stream = ""
    /\ tel.trace[1].line = "MV999"
    /\ rawData.GetAllZoneVolume[1].volume = "20.4"
    /\ Normalized(1) = 196
    /\ rawData.GetAllZoneVolume[2].volume = "--"
    /\ Normalized(2) = 0

(***************************************************************************)
(* Properties of the lifetime of the sockets                               *)
(***************************************************************************)
\* C35: in every state a receiver has at most one socket that is connecting
\* or connected, the one in its slot; a connection check creates a socket
\* for a receiver only when the slot of the receiver is empty, and a slot is
\* emptied only by the close event of the socket it holds, whatever the
\* order of checks, connects, errors, ends and closes
C35_OneSocketPerDevice ==
    [][\A macAddress \in Registered :
          /\ conn.live[macAddress] <= 1
          /\ conn'.live[macAddress] <= 1
          /\ conn'.live[macAddress] = 1 <=> conn'.tcpSocket[macAddress] \in {"opening", "open"}
          /\ macAddress \in conn'.created => conn.tcpSocket[macAddress] = "undefined"
          /\ (conn.tcpSocket[macAddress] # "undefined" /\ conn'.tcpSocket[macAddress] = "undefined")
                => conn'.op = Operation("close", macAddress, "")]_vars

\* a later check has made the second socket of the first receiver, after its
\* first one closed, while the first socket of the other is connected
C35_Witness ==
    /\ conn.op.name = "cycle"
    /\ conn.created = {"00:05:CD:00:00:01"}
    /\ conn.live = [macAddress \in Registered |-> 1]
    /\ conn.tcpSocket["00:05:CD:00:00:02"] = "open"


(***************************************************************************)
(* Properties of the records of two receivers                              *)
(***************************************************************************)
\* a dataline has been handed to the 'data' handler of the socket of macAddress
DataReceived(macAddress) == tel'.sent = tel.sent + 1 /\ tel'.macAddress = macAddress

\* C36: a dataline received on the socket of one receiver leaves the record
\* of every other receiver as it was, raw state, address and socket, and of
\* the record of its own receiver it changes the raw state only, whatever
\* the order the datalines of the two receivers arrive in
C36_DeviceIsolation ==
    [][\A macAddress \in Registered :
          DataReceived(macAddress) =>
             /\ \A other \in Registered \ {macAddress} :
                   discovery'.rawData[other] = discovery.rawData[other]
             /\ discovery'.rawData[macAddress].system = discovery.rawData[macAddress].system
             /\ discovery'.rawData[macAddress].tcpSocket = discovery.rawData[macAddress].tcpSocket
             /\ discovery'.rawData[macAddress].present]_vars

\* each receiver has reported a change of its own: the power of zone 1 on one
\* socket, the volume of zone 1 on the other
C36_Witness ==
    /\ tel.sent = 2
    /\ tel.macAddress = RegisteredOrder[2]
    /\ discovery.rawData[RegisteredOrder[1]].value.GetAllZonePowerStatus[1] = "ON"
    /\ discovery.rawData[RegisteredOrder[1]].value.GetAllZoneVolume[1].volume = "-40.0"
    /\ discovery.rawData[RegisteredOrder[2]].value.GetAllZonePowerStatus[1] = "OFF"
    /\ discovery.rawData[RegisteredOrder[2]].value.GetAllZoneVolume[1].volume # "-40.0"


(***************************************************************************)
(* Properties of the device objects                                        *)
(***************************************************************************)
\* the receivers whose serial number is excluded by the configuration
MarkedExcluded ==
    {macAddress \in Registered : discovery.rawData[macAddress].value.sdp.serialNumber \in discovery.exclude}

\* C40: whatever recognized datalines have arrived, the device object of a
\* receiver has been made at most once, the UPDATE message of the last
\* dataline went only to receivers whose device object exists, and a
\* receiver that is marked excluded has no device object and was not sent
\* the message
C40_DeviceObjects ==
    /\ \A macAddress \in Registered : tel.created[macAddress] <= 1
    /\ tel.notified \subseteq trackedDevices
    /\ \A macAddress \in MarkedExcluded :
          macAddress \notin trackedDevices /\ macAddress \notin tel.notified

\* the part of C40 that holds in every pass of #processPostSubscribe: a
\* receiver marked excluded when the pass runs is neither made nor notified
\* by it
C40_ExcludedSkippedByPass ==
    /\ \A macAddress \in Registered : tel.created[macAddress] <= 1
    /\ tel.notified \subseteq trackedDevices
    /\ \A macAddress \in MarkedExcluded : macAddress \notin tel.notified
    /\ tel.notified \cap tel.excluded = {}


(***************************************************************************)
(* Properties of the keys of the canonical zones                           *)
(***************************************************************************)
\* the keys of the inputs the canonical state lists for the presets
PresetKeys ==
    {canonical.inputs[i].uri : i \in {k \in 1..Len(canonical.inputs) : canonical.inputs[k].type = "MEMORY"}}

C37_UnlistedLeavesEmpty ==
    (Current /\ tel.trace[1].line \in {"SIPHONO", "TPAN03"} /\ (tel.trace[1].c0 = "TPAN" => OnTuner(1))) =>
        canonical.zones[1].input = "" /\ canonical.zones[1].source = ""


(***************************************************************************)
(* Properties of two local sets in a row                                   *)
(***************************************************************************)
\* a set() follows a set() with no canonical update in between, and is about
\* another attribute or another zone
SecondSet ==
    /\ ov.op = "set"
    /\ ov'.op = "set"
    /\ <<ov'.set.field, ov'.set.zone>> # <<ov.set.field, ov.set.zone>>

\* C38: when two local sets are issued with no canonical update in between,
\* the second about another attribute or another zone than the first, the
\* override cache after the second set still carries the value of the first
\* set next to the value of the second.
C38_BothSetsHeld ==
    [][SecondSet =>
          /\ HasOverride(cachedOptions', "zones")
          /\ FieldOf(cachedOptions'["zones"], ov.set) = FieldOf(ov.set.value, ov.set)
          /\ FieldOf(cachedOptions'["zones"], ov'.set) = FieldOf(ov'.set.value, ov'.set)]_vars

\* what does hold of the second set: the cache is the canonical state the
\* accessory holds with the second attribute alone replaced
C38_SecondSetAlone ==
    [][SecondSet =>
          /\ FieldOf(cachedOptions'["zones"], ov.set) = FieldOf(deviceData.zones, ov.set)
          /\ FieldOf(cachedOptions'["zones"], ov'.set) = FieldOf(ov'.set.value, ov'.set)]_vars


(***************************************************************************)
(* Properties of the shutdown                                              *)
(***************************************************************************)
\* C39: once the shutdown event has been handled, no step makes a socket for
\* a receiver and no step starts a discovery, also when the shutdown was
\* handled while a discovery window was open and the window closes after it.
C39_NothingStartsAfterShutdown ==
    [][ShutDown =>
          /\ conn'.created = {}
          /\ \A macAddress \in Registered :
                /\ conn'.live[macAddress] <= conn.live[macAddress]
                /\ conn'.tcpSocket[macAddress] = "opening" => conn.tcpSocket[macAddress] = "opening"
          /\ conn'.window # "none" => conn'.window = conn.window
          /\ ~conn'.connectionTimer
          /\ conn'.op.name \notin {"cycle", "discover"}]_vars

\* the window that was open when the shutdown event was handled has closed,
\* with a receiver whose slot is empty and no interval armed
C39_Witness ==
    /\ ShutDown
    /\ conn.op.name = "timeout"
    /\ conn.window = "none"
    /\ ~conn.connectionTimer
    /\ \E macAddress \in Registered : conn.tcpSocket[macAddress] = "undefined"

====
